---- MODULE Spec2Model ----
(***************************************************************************)
(* A model of the review-synthesis and rebuttal-revision pipeline of the   *)
(* reviewer_agent package: the point merge engines, the grounding filter   *)
(* and the review revision engine (agents/leader.py), the rebuttal         *)
(* generator (agents/author.py), the rebuttal verifier                     *)
(* (agents/verifier.py), the routers (agents/router.py), the review of an  *)
(* agent (agents/base.py), the parallel reviewer pool and the main         *)
(* pipeline of the command line (cli.py), the batch generation of reviews  *)
(* (eval/batch_generation.py) and the pipeline of the web application      *)
(* (streamlit_app.py).                                                     *)
(*                                                                         *)
(* Python strings are sequences of one-character strings, so that lower(), *)
(* strip(), split(), slicing and the substring test `in` are computed the  *)
(* way Python computes them.  None is the one-element sequence None.       *)
(***************************************************************************)
EXTENDS Integers, Sequences, FiniteSets, TLC

VARIABLES
    pc,             \* position of the operation under analysis
    \* agents/leader.py
    points,         \* List[Point]: the points handed to the merge engine
    review,         \* the Review object, mutated in place by the leader
    input,          \* the Review as it was constructed
    before,         \* the Review as it was when the last call started
    calls,          \* number of calls made on the Review object
    rebuttals,      \* List[str]: the author rebuttals
    verifications,  \* List[Tuple[str, str]]: (status, rebuttal text)
    \* agents/verifier.py
    llm,            \* verify's llm argument: "none" or "client"
    idx,            \* number of rebuttals the loop of verify has passed
    verified,       \* the list verify builds and returns
    raised,         \* the loop positions whose generator call raised
    outputs,        \* what llm.generate returned at each loop position
    \* agents/router.py
    paper,          \* Paper.sections: a list of [name, text]
    max_chars,      \* SectionBasedRouter.max_chars
    routing,        \* the dict route() returns: facet -> [text, sections]
    top_k,          \* DynamicRouter's top_k argument
    \* cli.py: run_reviewers_parallel
    max_workers,    \* width of the ThreadPoolExecutor
    future,         \* facet -> the future of its run_reviewer_task
    produced,       \* facet -> the points its agent.review returned
    collected,      \* the futures as_completed has yielded so far
    all_points,     \* the list run_reviewers_parallel returns
    \* cli.py: main
    args,           \* the parsed command line: [skip_related]
    top_related,    \* the related-paper records fetch_top_related returned
    rw_text,        \* the text handed to the Related-Work agent, None before
    \* agents/base.py: Agent.review
    points_data,    \* json.loads(response): the parsed response items
    \* eval/batch_generation.py: generate_reviews_batch
    batch_args,     \* the arguments of generate_reviews_batch
    paper_ids,      \* List[str]: the papers to process
    tasks,          \* per list position: the progress of that paper
    results,        \* the list generate_reviews_batch builds and returns
    files,          \* the file system: the set of paths that exist
    earlier,        \* the file system as the batch found it
    \* streamlit_app.py: run_pipeline, and cli.py: main
    stages,         \* the stages of the pipeline that have run, in order
    rebutted        \* the points handed to rebut

leaderVars ==
    <<points, review, input, before, calls, rebuttals, verifications>>
verifierVars == <<llm, idx, verified, raised, outputs>>
routerVars == <<paper, max_chars, routing, top_k>>
cliVars == <<args, top_related, rw_text>>
agentVars == <<points_data>>
batchVars == <<batch_args, paper_ids, tasks, results, files, earlier>>
pipelineVars == <<stages, rebutted>>
poolVars ==
    <<max_workers, future, produced, collected, all_points, cliVars, agentVars,
      batchVars, pipelineVars>>
vars == <<pc, leaderVars, verifierVars, routerVars, poolVars>>

-----------------------------------------------------------------------------
(* Python str                                                              *)

Chars(s) == [i \in 1..Len(s) |-> SubSeq(s, i, i)]

None == <<"None">>
NL == "\n"
TAB == "\t"

\* the characters str.strip() removes
Whitespace == {" ", TAB, NL, "\r"}

UpperCase == Chars("ABCDEFGHIJKLMNOPQRSTUVWXYZ")
LowerCase == Chars("abcdefghijklmnopqrstuvwxyz")

ToLower == [c \in {UpperCase[i] : i \in 1..26} |->
               LowerCase[CHOOSE i \in 1..26 : UpperCase[i] = c]]

ToUpper == [c \in {LowerCase[i] : i \in 1..26} |->
               UpperCase[CHOOSE i \in 1..26 : LowerCase[i] = c]]

UpperLetters == DOMAIN ToLower
LowerLetters == DOMAIN ToUpper

LowerChar(c) == IF c \in UpperLetters THEN ToLower[c] ELSE c

UpperChar(c) == IF c \in LowerLetters THEN ToUpper[c] ELSE c

\* s.lower()
Lower(s) == [i \in 1..Len(s) |-> LowerChar(s[i])]

\* s.upper()
Upper(s) == [i \in 1..Len(s) |-> UpperChar(s[i])]

\* needle in hay
Contains(hay, needle) ==
    \E i \in 0..(Len(hay) - Len(needle)) :
        \A k \in 1..Len(needle) : hay[i + k] = needle[k]

\* s[:n]
Prefix(s, n) == SubSeq(s, 1, IF n < Len(s) THEN n ELSE Len(s))

RECURSIVE LStrip(_)
LStrip(s) ==
    IF s # <<>> /\ Head(s) \in Whitespace THEN LStrip(Tail(s)) ELSE s

RECURSIVE RStrip(_)
RStrip(s) ==
    IF s # <<>> /\ s[Len(s)] \in Whitespace
    THEN RStrip(SubSeq(s, 1, Len(s) - 1))
    ELSE s

\* s.strip()
Strip(s) == RStrip(LStrip(s))

\* s.split(sep) for a one-character sep: a list of Len(separators)+1 words
RECURSIVE Split(_, _)
Split(s, sep) ==
    IF \A i \in 1..Len(s) : s[i] # sep
    THEN <<s>>
    ELSE LET k == CHOOSE i \in 1..Len(s) :
                      s[i] = sep /\ \A j \in 1..(i - 1) : s[j] # sep
         IN  <<SubSeq(s, 1, k - 1)>> \o Split(SubSeq(s, k + 1, Len(s)), sep)

\* sep.join(words)
RECURSIVE Join(_, _)
Join(words, sep) ==
    IF words = <<>> THEN <<>>
    ELSE IF Len(words) = 1 THEN words[1]
    ELSE words[1] \o sep \o Join(Tail(words), sep)

-----------------------------------------------------------------------------
(* schemas.py                                                              *)

Kinds == {"strength", "weakness", "suggestion"}

Point(kind, text, grounding, facet) ==
    [kind |-> kind, text |-> text, grounding |-> grounding, facet |-> facet]

Review(summary, strengths, weaknesses, suggestions) ==
    [summary |-> summary, strengths |-> strengths,
     weaknesses |-> weaknesses, suggestions |-> suggestions]

\* Review(): every field at its default
EmptyReview == Review(<<>>, <<>>, <<>>, <<>>)

\* SectionBasedRouter.__init__: max_chars: int = 12000
DefaultMaxChars == 12000

\* DynamicRouter.__init__: top_k: int = 8
DefaultTopK == 8

\* run_reviewers_parallel: max_workers=4
DefaultMaxWorkers == 4

\* the parts of the state an operation under analysis does not use
LeaderIdle ==
    /\ points = <<>>
    /\ review = EmptyReview
    /\ input = EmptyReview
    /\ before = EmptyReview
    /\ calls = 0
    /\ rebuttals = <<>>
    /\ verifications = <<>>

VerifierIdle ==
    llm = "none" /\ idx = 0 /\ verified = <<>> /\ raised = {} /\ outputs = <<>>

RouterIdle ==
    /\ paper = <<>>
    /\ max_chars = DefaultMaxChars
    /\ routing = <<>>
    /\ top_k = DefaultTopK

CliIdle ==
    /\ args = [skip_related |-> FALSE]
    /\ top_related = <<>>
    /\ rw_text = None

AgentIdle == points_data = <<>>

BatchIdle ==
    /\ batch_args = <<>>
    /\ paper_ids = <<>>
    /\ tasks = <<>>
    /\ results = <<>>
    /\ files = {}
    /\ earlier = {}

PipelineIdle == stages = <<>> /\ rebutted = <<>>

PoolIdle ==
    /\ CliIdle
    /\ AgentIdle
    /\ BatchIdle
    /\ PipelineIdle
    /\ max_workers = DefaultMaxWorkers
    /\ future = <<>>
    /\ produced = <<>>
    /\ collected = {}
    /\ all_points = <<>>

-----------------------------------------------------------------------------
(* agents/leader.py: enforce_grounding                                     *)

\* a grounding test that forgets strip(): whitespace counts as grounding
GroundedNoStrip(pt) == pt.grounding # None /\ pt.grounding # <<>>

\* bool(pt.grounding and len(pt.grounding.strip()) > 0)
grounded(pt) ==
    /\ pt.grounding # None
    /\ pt.grounding # <<>>
    /\ Len(Strip(pt.grounding)) > 0

\* a filter that removes from the list it is iterating over, so that the
\* element after a removed one is skipped
RECURSIVE RemoveWhileIterating(_)
RemoveWhileIterating(pts) ==
    IF pts = <<>> THEN <<>>
    ELSE IF grounded(Head(pts))
    THEN <<Head(pts)>> \o RemoveWhileIterating(Tail(pts))
    ELSE IF Len(pts) = 1 THEN <<>>
    ELSE <<pts[2]>> \o RemoveWhileIterating(SubSeq(pts, 3, Len(pts)))

\* [p for p in pts if grounded(p)]
RECURSIVE KeepGrounded(_)
KeepGrounded(pts) ==
    IF pts = <<>> THEN <<>>
    ELSE (IF grounded(Head(pts)) THEN <<Head(pts)>> ELSE <<>>)
             \o KeepGrounded(Tail(pts))

enforce_grounding(r) ==
    [r EXCEPT !.strengths = KeepGrounded(r.strengths),
              !.weaknesses = KeepGrounded(r.weaknesses),
              !.suggestions = KeepGrounded(r.suggestions)]

-----------------------------------------------------------------------------
(* agents/leader.py: _simple_merge_points                                  *)

\* a key that forgets the kind
KeyWithoutKind(p) == <<"any", Lower(p.text)>>

\* a key that forgets lower()
KeyCaseSensitive(p) == <<p.kind, p.text>>

\* key = (p.kind, p.text.lower())
MergeKey(p) == <<p.kind, Lower(p.text)>>

MergeSummary ==
    Chars("This review aggregates facet-specialist feedback. Strengths include clear methods and positioning; weaknesses center on statistical rigor and comparative evidence.")

\* the body of `for p in points`, acc = [seen, strengths, weaknesses, suggestions]
MergeStep(acc, p) ==
    IF MergeKey(p) \in acc.seen
    THEN acc
    ELSE [seen |-> acc.seen \cup {MergeKey(p)},
          strengths |-> IF p.kind = "strength"
                        THEN Append(acc.strengths, p) ELSE acc.strengths,
          weaknesses |-> IF p.kind = "weakness"
                         THEN Append(acc.weaknesses, p) ELSE acc.weaknesses,
          suggestions |-> IF p.kind = "suggestion"
                          THEN Append(acc.suggestions, p) ELSE acc.suggestions]

RECURSIVE MergeLoop(_, _)
MergeLoop(pts, acc) ==
    IF pts = <<>> THEN acc ELSE MergeLoop(Tail(pts), MergeStep(acc, Head(pts)))

_simple_merge_points(pts) ==
    LET acc == MergeLoop(pts, [seen |-> {}, strengths |-> <<>>,
                               weaknesses |-> <<>>, suggestions |-> <<>>])
    IN  Review(MergeSummary, acc.strengths, acc.weaknesses, acc.suggestions)

-----------------------------------------------------------------------------
(* agents/leader.py: revise_review                                         *)

SoftMarkers ==
    {Chars("misunderstanding"), Chars("missing context"), Chars("clarification")}

EvidenceTags == {Chars("Sec"), Chars("Table"), Chars("Fig"), Chars("Appendix")}

WeakSuffix == Chars("(Author response noted but lacks specificity)")

ClarifyPrefix == Chars("Consider clarifying: ")

\* {text: status for status, text in verifications}.get(reb, "UNVERIFIED"):
\* a later pair overwrites an earlier one with the same text
StatusByRebuttal(vs, reb) ==
    LET hits == {i \in 1..Len(vs) : vs[i][2] = reb}
    IN  IF hits = {} THEN "UNVERIFIED"
        ELSE vs[CHOOSE i \in hits : \A j \in hits : j <= i][1]

Space == Chars(" ")

\* p.text.lower().split(" ")[0:4]
KeyWords(p) == Prefix(Split(Lower(p.text), Space[1]), 4)

KeyPhrase(p) == Join(KeyWords(p), Space)

\* the two tests of the matching loop, for one rebuttal in lower case
KeyMatches(key_words, key_phrase, r_lower) ==
    \/ key_phrase # <<>> /\ Contains(r_lower, key_phrase)
    \/ \E k \in 1..Len(key_words) :
           Len(key_words[k]) > 3 /\ Contains(r_lower, key_words[k])

\* whether the loop breaks on the rebuttal r for the point p
RebMatches(p, r) == KeyMatches(KeyWords(p), KeyPhrase(p), Lower(r))

\* index of the rebuttal the loop breaks on (the first that matches), 0 when
\* it runs to the end
MatchedIndex(p, rebs) ==
    LET key_words == KeyWords(p)
        key_phrase == Join(key_words, Space)
        Hit(i) == KeyMatches(key_words, key_phrase, Lower(rebs[i]))
        hits == {i \in 1..Len(rebs) : Hit(i)}
    IN  IF hits = {} THEN 0
        ELSE CHOOSE i \in hits : \A j \in hits : i <= j

HasSoftMarker(reb) == \E m \in SoftMarkers : Contains(Lower(reb), m)

HasEvidenceTag(reb) == \E tag \in EvidenceTags : Contains(reb, tag)

AuthorResponse == Chars("Author response: ")
AuthorClarified == Chars(" (Author clarified: ")
Ellipsis == Chars("...")

\* a grounding that is replaced by the quote, whatever it was
GroundingReplaced(p, reb) == AuthorResponse \o Prefix(reb, 100) \o Ellipsis

NewGrounding(p, reb) ==
    IF p.grounding = None \/ p.grounding = <<>>
    THEN AuthorResponse \o Prefix(reb, 100) \o Ellipsis
    ELSE p.grounding \o AuthorClarified \o Prefix(reb, 50) \o Ellipsis
             \o Chars(")")

\* a softening that builds the new Point without the grounding
SoftenDroppingGrounding(p) ==
    Point("suggestion", ClarifyPrefix \o p.text, None, p.facet)

\* status OK, soft marker, weakness: Point(kind="suggestion", ...)
Soften(p) == Point("suggestion", ClarifyPrefix \o p.text, p.grounding, p.facet)

\* a note that is put in front of the text instead of after it
WeakNoteInFront(p) ==
    Point(p.kind, WeakSuffix \o Space \o p.text, p.grounding, p.facet)

\* status WEAK: the text gets the note appended
WeakNote(p) ==
    Point(p.kind, p.text \o Space \o WeakSuffix, p.grounding, p.facet)

\* a revision that notes the author response on every matched point whose
\* rebuttal was not verified OK, the UNVERIFIED ones included
ReviseNotingUnverified(p, rebs, vs) ==
    LET i == MatchedIndex(p, rebs)
        matched_reb == IF i = 0 THEN None ELSE rebs[i]
        status == StatusByRebuttal(vs, matched_reb)
    IN  IF matched_reb = None \/ matched_reb = <<>> THEN p
        ELSE IF status = "OK" THEN
            IF HasSoftMarker(matched_reb) THEN
                IF p.kind = "weakness" THEN Soften(p) ELSE p
            ELSE IF HasEvidenceTag(matched_reb)
            THEN Point(p.kind, p.text, NewGrounding(p, matched_reb), p.facet)
            ELSE p
        ELSE WeakNote(p)

\* what process() appends to revised for the point p
RevisePoint(p, rebs, vs) ==
    LET i == MatchedIndex(p, rebs)
        matched_reb == IF i = 0 THEN None ELSE rebs[i]
        status == StatusByRebuttal(vs, matched_reb)
    IN  IF matched_reb = None \/ matched_reb = <<>> THEN p
        ELSE IF status = "OK" THEN
            IF HasSoftMarker(matched_reb) THEN
                IF p.kind = "weakness" THEN Soften(p) ELSE p
            ELSE IF HasEvidenceTag(matched_reb)
            THEN Point(p.kind, p.text, NewGrounding(p, matched_reb), p.facet)
            ELSE p
        ELSE IF status = "WEAK" THEN WeakNote(p)
        ELSE p

process(pts, rebs, vs) == [j \in 1..Len(pts) |-> RevisePoint(pts[j], rebs, vs)]

\* a revision that runs process() over the strengths as well
ReviseAlsoStrengths(r, rebs, vs) ==
    [r EXCEPT !.strengths = process(r.strengths, rebs, vs),
              !.weaknesses = process(r.weaknesses, rebs, vs),
              !.suggestions = process(r.suggestions, rebs, vs)]

revise_review(r, rebs, vs) ==
    [r EXCEPT !.weaknesses = process(r.weaknesses, rebs, vs),
              !.suggestions = process(r.suggestions, rebs, vs)]

\* the Review built from the merged lists: each point takes the kind of the
\* list it came in (Point(kind="strength", **p) ...)
ReviewOf(pts) ==
    LET IsStrength(p) == p.kind = "strength"
        IsWeakness(p) == p.kind = "weakness"
        IsSuggestion(p) == p.kind = "suggestion"
    IN  Review(<<>>, SelectSeq(pts, IsStrength), SelectSeq(pts, IsWeakness),
               SelectSeq(pts, IsSuggestion))

-----------------------------------------------------------------------------
(* Bounds and input universes                                              *)

MaxPoints == 3
MaxCalls == 2
MaxRevisePoints == 2
MaxRebuttals == 2

Lists(U, n) == UNION {[1..k -> U] : k \in 0..n}

PointsOver(texts, groundings) ==
    {Point(k, t, g, None) : k \in Kinds, t \in texts, g \in groundings}

MergeInputs ==
    Lists(PointsOver({Chars("Clear writing"), Chars("clear writing "),
                      Chars("clear writing")},
                     {Chars("S1"), Chars("S2")}), MaxPoints)

GroundInputs ==
    Lists(PointsOver({Chars("Clear writing")},
                     {None, <<>>, <<" ", TAB, NL>>, Chars("Sec 3.2")}),
          MaxPoints)

StatisticalPower == Chars("Statistical power unclear")
NoBaselines == Chars("No baselines in the main comparison")
Sec32 == Chars("Sec 3.2")
Methods == Chars("methods")

\* the points a Review under revision is made of
RevisePoints ==
    {Point("weakness", StatisticalPower, Sec32, Methods),
     Point("weakness", NoBaselines, None, None),
     Point("suggestion", StatisticalPower, None, None),
     Point("strength", StatisticalPower, None, Methods)}

ReviseInputs == Lists(RevisePoints, MaxRevisePoints)

\* soft marker and evidence tag; shares the word "power" with the first text
RebMisunderstanding ==
    Chars("MISUNDERSTANDING: power analysis is in Appendix B")

\* evidence tag only; holds the whole key phrase of the first text, and is
\* longer than the 100 characters that the grounding quotes
RebSeeTable ==
    Chars("Statistical power unclear? See Table 2, which reports the power ")
    \o Chars("of every test at the sample sizes of all five datasets")

\* neither; shares the word "baselines" with the second text
RebAdded == Chars("We added baselines")

RebuttalTexts == {RebMisunderstanding, RebSeeTable, RebAdded}

Statuses == {"OK", "WEAK", "UNVERIFIED"}

\* lists of (status, rebuttal text), one pair per rebuttal
VerificationInputs == Lists(Statuses \X RebuttalTexts, MaxRebuttals)

-----------------------------------------------------------------------------
(* The simple merge, applied to a list of points                           *)

InitMerge ==
    /\ pc = "leader"
    /\ VerifierIdle /\ RouterIdle /\ PoolIdle
    /\ points \in MergeInputs
    /\ review = EmptyReview
    /\ input = EmptyReview
    /\ before = EmptyReview
    /\ calls = 0
    /\ rebuttals = <<>>
    /\ verifications = <<>>

SimpleMerge ==
    /\ calls = 0
    /\ before' = review
    /\ review' = _simple_merge_points(points)
    /\ calls' = 1
    /\ UNCHANGED <<pc, points, input, rebuttals, verifications>>
    /\ UNCHANGED <<verifierVars, routerVars, poolVars>>

NextMerge == SimpleMerge

SpecMerge == InitMerge /\ [][NextMerge]_vars

-----------------------------------------------------------------------------
(* The grounding filter, applied repeatedly to a Review                    *)

InitGround ==
    /\ pc = "leader"
    /\ VerifierIdle /\ RouterIdle /\ PoolIdle
    /\ points \in GroundInputs
    /\ review = ReviewOf(points)
    /\ input = review
    /\ before = review
    /\ calls = 0
    /\ rebuttals = <<>>
    /\ verifications = <<>>

EnforceGrounding ==
    /\ calls < MaxCalls
    /\ before' = review
    /\ review' = enforce_grounding(review)
    /\ calls' = calls + 1
    /\ UNCHANGED <<pc, points, input, rebuttals, verifications>>
    /\ UNCHANGED <<verifierVars, routerVars, poolVars>>

NextGround == EnforceGrounding

SpecGround == InitGround /\ [][NextGround]_vars

-----------------------------------------------------------------------------
(* Properties of the grounding filter                                      *)

\* C1: applying enforce_grounding to a Review it has already been applied to
\* changes nothing: enforce(enforce(r)) = enforce(r).
C1_EnforceIdempotent == calls >= 2 => review = before

\* a second application, on a Review whose first application dropped a point
C1_Witness ==
    /\ calls = 2
    /\ Len(input.weaknesses) > Len(review.weaknesses)
    /\ Len(review.weaknesses) > 0

\* the grounding is present and holds a character that is not whitespace
NonBlankGrounding(p) ==
    /\ p.grounding # None
    /\ \E i \in 1..Len(p.grounding) : p.grounding[i] \notin Whitespace

\* C2: after enforce_grounding each of the three lists holds exactly the
\* points of the list before the call whose grounding is present and not
\* blank, in their original order; nothing else of the Review changes.
C2_KeepsExactlyGrounded ==
    calls >= 1 =>
        /\ review.strengths = SelectSeq(before.strengths, NonBlankGrounding)
        /\ review.weaknesses = SelectSeq(before.weaknesses, NonBlankGrounding)
        /\ review.suggestions = SelectSeq(before.suggestions, NonBlankGrounding)
        /\ review.summary = before.summary

\* the scenario: grounding "" is dropped, "Sec 3.2" is kept; and a
\* whitespace-only grounding is dropped between two kept points
C2_Witness ==
    /\ calls = 1
    /\ before.weaknesses =
           <<Point("weakness", Chars("Clear writing"), <<>>, None),
             Point("weakness", Chars("Clear writing"), Chars("Sec 3.2"), None)>>
    /\ before.strengths =
           <<Point("strength", Chars("Clear writing"), <<" ", TAB, NL>>, None)>>
    /\ review.weaknesses =
           <<Point("weakness", Chars("Clear writing"), Chars("Sec 3.2"), None)>>
    /\ review.strengths = <<>>

-----------------------------------------------------------------------------
(* Properties of the simple merge                                          *)

\* the key the points are compared by: (kind, lowercased text)
DedupKey(p) == <<p.kind, Lower(p.text)>>

Survivors == review.strengths \o review.weaknesses \o review.suggestions

\* C3: the simple merge leaves exactly one point per distinct key
\* (kind, lowercased text) of its input, the first point with that key in
\* input order, in the list of its kind; and no other point.
C3_OneSurvivorPerKey ==
    calls = 1 =>
        LET out == Survivors
            key == [i \in 1..Len(points) |-> DedupKey(points[i])]
            outKey == [j \in 1..Len(out) |-> DedupKey(out[j])]
            first(i) == CHOOSE j \in 1..i :
                            key[j] = key[i] /\ \A k \in 1..(j - 1) : key[k] # key[i]
        IN  /\ \A i \in 1..Len(points) :
                   /\ Cardinality({j \in 1..Len(out) : outKey[j] = key[i]}) = 1
                   /\ \E j \in 1..Len(out) : out[j] = points[first(i)]
            /\ \A j \in 1..Len(out) : \E i \in 1..Len(points) : out[j] = points[i]
            /\ \A j \in 1..Len(review.strengths) :
                   review.strengths[j].kind = "strength"
            /\ \A j \in 1..Len(review.weaknesses) :
                   review.weaknesses[j].kind = "weakness"
            /\ \A j \in 1..Len(review.suggestions) :
                   review.suggestions[j].kind = "suggestion"

\* three points, the first and the third with one key (they differ in case
\* and in grounding), and a point of another kind with the same text between
C3_Witness ==
    /\ calls = 1
    /\ Len(points) = 3
    /\ DedupKey(points[1]) = DedupKey(points[3])
    /\ points[1] # points[3]
    /\ points[1].text # points[3].text
    /\ points[2].kind # points[1].kind
    /\ Lower(points[2].text) = Lower(points[1].text)
    /\ Len(Survivors) = 2

ClearWritingS1 == Point("strength", Chars("Clear writing"), Chars("S1"), None)

\* "clear writing " with the trailing space
ClearWritingSpaceS2 ==
    Point("strength", Chars("clear writing "), Chars("S2"), None)

\* "clear writing" without it
ClearWritingLowerS2 ==
    Point("strength", Chars("clear writing"), Chars("S2"), None)

\* C4 as stated: of ("strength","Clear writing","S1") and
\* ("strength","clear writing ","S2") the simple merge keeps only the first.
C4_AsStated ==
    (calls = 1 /\ points = <<ClearWritingS1, ClearWritingSpaceS2>>)
        => review.strengths = <<ClearWritingS1>>

\* C4, amended: two strength points whose texts differ only in letter case
\* are merged into the first; when the second text also ends in a space the
\* keys differ and both points are kept, in input order.
C4_CaseOnlyDedup ==
    calls = 1 =>
        /\ points = <<ClearWritingS1, ClearWritingLowerS2>>
               => review.strengths = <<ClearWritingS1>>
        /\ points = <<ClearWritingS1, ClearWritingSpaceS2>>
               => review.strengths = <<ClearWritingS1, ClearWritingSpaceS2>>

C4_Witness ==
    /\ calls = 1
    /\ points = <<ClearWritingS1, ClearWritingSpaceS2>>
    /\ Len(review.strengths) = 2

\* the lists that hold the elements of seq in another order
Reorderings(seq) ==
    {[i \in 1..Len(seq) |-> seq[f[i]]] :
        f \in {g \in [1..Len(seq) -> 1..Len(seq)] :
                  \A i, j \in 1..Len(seq) : g[i] = g[j] => i = j}}

Elements(seq) == {seq[i] : i \in 1..Len(seq)}

\* C20 as stated: the simple merge of any permutation of the input list
\* leaves the same set of points in strengths, in weaknesses and in
\* suggestions as the simple merge of the list itself.
C20_AsStated ==
    calls = 1 =>
        \A perm \in Reorderings(points) :
            LET other == _simple_merge_points(perm)
            IN  /\ Elements(other.strengths) = Elements(review.strengths)
                /\ Elements(other.weaknesses) = Elements(review.weaknesses)
                /\ Elements(other.suggestions) = Elements(review.suggestions)

-----------------------------------------------------------------------------
(* The revision engine, applied to a Review, rebuttals and verifications   *)

InitRevise ==
    /\ pc = "leader"
    /\ VerifierIdle /\ RouterIdle /\ PoolIdle
    /\ points \in ReviseInputs
    /\ review = ReviewOf(points)
    /\ input = review
    /\ before = review
    /\ calls = 0
    /\ verifications \in VerificationInputs
    /\ rebuttals = [i \in 1..Len(verifications) |-> verifications[i][2]]

ReviseReview ==
    /\ calls = 0
    /\ before' = review
    /\ review' = revise_review(review, rebuttals, verifications)
    /\ calls' = 1
    /\ UNCHANGED <<pc, points, input, rebuttals, verifications>>
    /\ UNCHANGED <<verifierVars, routerVars, poolVars>>

NextRevise == ReviseReview

SpecRevise == InitRevise /\ [][NextRevise]_vars

-----------------------------------------------------------------------------
(* Properties of the revision engine                                       *)

RevisedLists == {"weaknesses", "suggestions"}

\* the statuses the verifications give for the rebuttal text reb
VerifiedStatuses(reb) ==
    {verifications[k][1] : k \in {n \in 1..Len(verifications) :
                                      verifications[n][2] = reb}}

\* for each text of a point, the rebuttal texts that pass one of the two
\* tests of the matching loop
MatchingRebuttals ==
    [t \in {p.text : p \in RevisePoints} |->
        {r \in RebuttalTexts : RebMatches(Point("weakness", t, None, None), r)}]

\* the position of the first rebuttal of rebs that matches p, 0 if none does
FirstMatch(p, rebs) ==
    LET hits == {i \in 1..Len(rebs) : rebs[i] \in MatchingRebuttals[p.text]}
    IN  IF hits = {} THEN 0
        ELSE CHOOSE i \in hits : \A k \in hits : i <= k

\* the rebuttal texts that hold a soft marker, and those that hold an
\* evidence tag
SoftRebuttals == {r \in RebuttalTexts : HasSoftMarker(r)}
EvidenceRebuttals == {r \in RebuttalTexts : HasEvidenceTag(r)}

\* the point at position j of list L was matched to a rebuttal whose
\* verified status is st (every verification of that text says st)
MatchedWithStatus(L, j, st) ==
    LET i == FirstMatch(before[L][j], rebuttals)
    IN  i > 0 /\ VerifiedStatuses(rebuttals[i]) = {st}

MatchedRebuttal(L, j) == rebuttals[FirstMatch(before[L][j], rebuttals)]

EndsWith(s, suffix) ==
    /\ Len(s) >= Len(suffix)
    /\ SubSeq(s, Len(s) - Len(suffix) + 1, Len(s)) = suffix

\* C6: a weakness matched to a rebuttal verified OK that holds a soft
\* marker becomes the suggestion "Consider clarifying: " + its text, with
\* its grounding and facet; and the only change of kind the revision ever
\* makes is from weakness to suggestion (no point becomes a strength, no
\* suggestion becomes a weakness).
C6_SoftOkDemotes ==
    calls = 1 =>
        \A L \in RevisedLists :
            /\ Len(review[L]) = Len(before[L])
            /\ \A j \in 1..Len(before[L]) :
                   LET p == before[L][j]
                       q == review[L][j]
                   IN  /\ ( /\ p.kind = "weakness"
                            /\ MatchedWithStatus(L, j, "OK")
                            /\ HasSoftMarker(MatchedRebuttal(L, j)) )
                           => q = Point("suggestion", ClarifyPrefix \o p.text,
                                        p.grounding, p.facet)
                       /\ q.kind # p.kind
                           => (p.kind = "weakness" /\ q.kind = "suggestion")

\* the scenario: "Statistical power unclear" against the rebuttal
\* "MISUNDERSTANDING: power analysis is in Appendix B", verified OK
C6_Witness ==
    /\ calls = 1
    /\ before.weaknesses =
           <<Point("weakness", StatisticalPower, Sec32, Methods)>>
    /\ rebuttals = <<RebMisunderstanding>>
    /\ verifications = <<<<"OK", RebMisunderstanding>>>>
    /\ review.weaknesses =
           <<Point("suggestion",
                   Chars("Consider clarifying: Statistical power unclear"),
                   Sec32, Methods)>>

\* C9: a weakness or suggestion matched to a rebuttal verified WEAK keeps
\* its kind, grounding and facet, and its text becomes the old text followed
\* by the note, so that it ends with
\* "(Author response noted but lacks specificity)".
C9_WeakAppendsNote ==
    calls = 1 =>
        \A L \in RevisedLists :
            \A j \in 1..Len(before[L]) :
                LET p == before[L][j]
                    q == review[L][j]
                IN  MatchedWithStatus(L, j, "WEAK") =>
                        /\ EndsWith(q.text, WeakSuffix)
                        /\ Prefix(q.text, Len(p.text)) = p.text
                        /\ Len(q.text) > Len(p.text)
                        /\ q.kind = p.kind
                        /\ q.grounding = p.grounding
                        /\ q.facet = p.facet

\* a weakness and a suggestion, both matched to rebuttals verified WEAK
C9_Witness ==
    /\ calls = 1
    /\ Len(before.weaknesses) = 1
    /\ Len(before.suggestions) = 1
    /\ MatchedWithStatus("weaknesses", 1, "WEAK")
    /\ MatchedWithStatus("suggestions", 1, "WEAK")
    /\ before.weaknesses[1].grounding # None
    /\ before.weaknesses[1].facet # None
    /\ review.suggestions[1].text # before.suggestions[1].text

\* C10: revise_review leaves the strengths of the Review as they were.
C10_StrengthsUnchanged == calls = 1 => review.strengths = before.strengths

\* a Review with a strength that the rebuttals match, next to a weakness
\* that the revision does rewrite
C10_Witness ==
    /\ calls = 1
    /\ Len(before.strengths) = 1
    /\ MatchedWithStatus("strengths", 1, "WEAK")
    /\ Len(before.weaknesses) = 1
    /\ review.weaknesses # before.weaknesses

\* C11 as stated: revise_review is pure; after the call the Review object
\* that was passed in (review: its weaknesses and suggestions lists) is as it
\* was before the call.
C11_AsStated ==
    calls = 1 =>
        /\ review.weaknesses = before.weaknesses
        /\ review.suggestions = before.suggestions

\* C23: a weakness or suggestion comes out of revise_review as it went in
\* (same kind, text, grounding and facet) when no rebuttal matches it, when
\* its matched rebuttal is verified UNVERIFIED, and when that rebuttal is
\* verified OK and holds neither a soft marker nor an evidence tag.
C23_PassesThrough ==
    calls = 1 =>
        \A L \in RevisedLists :
            \A j \in 1..Len(before[L]) :
                ( \/ FirstMatch(before[L][j], rebuttals) = 0
                  \/ MatchedWithStatus(L, j, "UNVERIFIED")
                  \/ /\ MatchedWithStatus(L, j, "OK")
                     /\ MatchedRebuttal(L, j) \notin SoftRebuttals
                     /\ MatchedRebuttal(L, j) \notin EvidenceRebuttals )
                    => review[L][j] = before[L][j]

\* a weakness matched to an UNVERIFIED rebuttal and a suggestion that no
\* rebuttal matches, both as they were
C23_Witness ==
    /\ calls = 1
    /\ Len(before.weaknesses) = 1
    /\ Len(before.suggestions) = 1
    /\ MatchedWithStatus("weaknesses", 1, "UNVERIFIED")
    /\ rebuttals # <<>>
    /\ FirstMatch(before.suggestions[1], rebuttals) = 0
    /\ review.weaknesses = before.weaknesses
    /\ review.suggestions = before.suggestions

\* a weakness matched to a rebuttal verified OK that holds neither marker,
\* as it was, next to a suggestion that the revision rewrites
C23_WitnessOk ==
    /\ calls = 1
    /\ Len(before.weaknesses) = 1
    /\ MatchedWithStatus("weaknesses", 1, "OK")
    /\ MatchedRebuttal("weaknesses", 1) = RebAdded
    /\ review.weaknesses = before.weaknesses
    /\ review.suggestions # before.suggestions

\* the point at position j of list L was matched to a rebuttal verified OK
\* that holds an evidence tag and no soft marker
MatchedWithEvidence(L, j) ==
    /\ MatchedWithStatus(L, j, "OK")
    /\ MatchedRebuttal(L, j) \in EvidenceRebuttals
    /\ MatchedRebuttal(L, j) \notin SoftRebuttals

\* C24: such a point keeps its kind, text and facet, and its grounding is
\* augmented: without grounding it gets "Author response: ", the first 100
\* characters of the rebuttal and "..."; with grounding the new grounding
\* starts with the old one and is longer.
C24_GroundingAugmented ==
    calls = 1 =>
        \A L \in RevisedLists :
            \A j \in 1..Len(before[L]) :
                LET p == before[L][j]
                    q == review[L][j]
                    reb == MatchedRebuttal(L, j)
                IN  MatchedWithEvidence(L, j) =>
                        /\ q.kind = p.kind
                        /\ q.text = p.text
                        /\ q.facet = p.facet
                        /\ q.grounding # None
                        /\ IF p.grounding \in {None, <<>>}
                           THEN q.grounding = AuthorResponse
                                    \o SubSeq(reb, 1, IF Len(reb) < 100
                                                      THEN Len(reb) ELSE 100)
                                    \o Ellipsis
                           ELSE /\ Len(q.grounding) > Len(p.grounding)
                                /\ SubSeq(q.grounding, 1, Len(p.grounding))
                                       = p.grounding

\* a grounded weakness and an ungrounded suggestion, both matched to the
\* rebuttal that points to Table 2, which is longer than the quote
C24_Witness ==
    /\ calls = 1
    /\ Len(before.weaknesses) = 1
    /\ Len(before.suggestions) = 1
    /\ MatchedWithEvidence("weaknesses", 1)
    /\ MatchedWithEvidence("suggestions", 1)
    /\ before.weaknesses[1].grounding = Sec32
    /\ before.suggestions[1].grounding = None
    /\ Len(MatchedRebuttal("weaknesses", 1)) > 100
    /\ Len(review.suggestions[1].grounding) = 17 + 100 + 3

\* every point of the list pts has the kind k
KindConsistent(pts, k) == \A j \in 1..Len(pts) : pts[j].kind = k

\* C25 as stated: after revise_review on a Review whose lists were
\* kind-consistent, every point of review.weaknesses has kind weakness and
\* every point of review.suggestions has kind suggestion.
C25_AsStated ==
    ( /\ calls = 1
      /\ KindConsistent(before.weaknesses, "weakness")
      /\ KindConsistent(before.suggestions, "suggestion") )
        => /\ KindConsistent(review.weaknesses, "weakness")
           /\ KindConsistent(review.suggestions, "suggestion")

\* what the dispatch on the status st makes of the point p matched to the
\* rebuttal reb, as section 4.7 of the specification describes it
DispatchOn(p, reb, st) ==
    IF st = "WEAK"
    THEN [p EXCEPT !.text = p.text \o Space \o WeakSuffix]
    ELSE IF st = "OK" /\ reb \in SoftRebuttals
    THEN IF p.kind = "weakness"
         THEN [p EXCEPT !.kind = "suggestion", !.text = ClarifyPrefix \o p.text]
         ELSE p
    ELSE IF st = "OK" /\ reb \in EvidenceRebuttals
    THEN [p EXCEPT !.grounding = NewGrounding(p, reb)]
    ELSE p

\* C26 as stated: a point matched to the rebuttal at position i of the
\* rebuttals list is revised according to the status of the i-th
\* verification outcome, also when several rebuttals have the same text and
\* different statuses.
C26_AsStated ==
    calls = 1 =>
        \A L \in RevisedLists :
            \A j \in 1..Len(before[L]) :
                LET i == FirstMatch(before[L][j], rebuttals)
                IN  i > 0 =>
                        review[L][j] = DispatchOn(before[L][j], rebuttals[i],
                                                  verifications[i][1])

\* the rebuttal r contains the key phrase of the point p
HoldsKeyPhrase(p, r) ==
    KeyPhrase(p) # <<>> /\ Contains(Lower(r), KeyPhrase(p))

\* C22 as stated: a point whose key phrase (its first four words in lower
\* case) occurs in some rebuttal is matched to a rebuttal that contains the
\* key phrase; the word-overlap test decides only when no rebuttal contains
\* the phrase.
C22_AsStated ==
    calls = 1 =>
        \A L \in RevisedLists :
            \A j \in 1..Len(before[L]) :
                (\E i \in 1..Len(rebuttals) :
                     HoldsKeyPhrase(before[L][j], rebuttals[i]))
                    => HoldsKeyPhrase(before[L][j], MatchedRebuttal(L, j))

-----------------------------------------------------------------------------
(* agents/leader.py: merge_points and _llm_merge_points                    *)

\* responses of the generator to the synthesis prompt
RespSynthesis ==
    "{\"summary\": \"S\", \"strengths\": [], \"weaknesses\": [{\"text\": \"Statistical power unclear\", \"grounding\": \"Sec 3.2\", \"facet\": \"methods\"}], \"suggestions\": [{\"text\": \"Clear writing\"}]}"

RespProse == "Here is the merged review: {\"summary\": \"S\""

RespNoSummary == "{\"weaknesses\": []}"

RespList == "[]"

RespItemWithKind ==
    "{\"summary\": \"S\", \"weaknesses\": [{\"kind\": \"weakness\", \"text\": \"Clear writing\"}]}"

RespItemWithoutText ==
    "{\"summary\": \"S\", \"weaknesses\": [{\"grounding\": \"Sec 3.2\"}]}"

\* json.loads on the responses above: ok is FALSE where it raises
\* JSONDecodeError; object tells whether the value is a dict
JsonLoads(response) ==
    CASE response = RespSynthesis ->
             [ok |-> TRUE, object |-> TRUE,
              value |-> [summary |-> Chars("S"),
                         strengths |-> <<>>,
                         weaknesses |-> <<[text |-> StatisticalPower,
                                           grounding |-> Sec32,
                                           facet |-> Methods]>>,
                         suggestions |-> <<[text |-> Chars("Clear writing")]>>]]
      [] response = RespNoSummary ->
             [ok |-> TRUE, object |-> TRUE, value |-> [weaknesses |-> <<>>]]
      [] response = RespList ->
             [ok |-> TRUE, object |-> FALSE, value |-> <<>>]
      [] response = RespItemWithKind ->
             [ok |-> TRUE, object |-> TRUE,
              value |-> [summary |-> Chars("S"),
                         weaknesses |-> <<[kind |-> Chars("weakness"),
                                           text |-> Chars("Clear writing")]>>]]
      [] response = RespItemWithoutText ->
             [ok |-> TRUE, object |-> TRUE,
              value |-> [summary |-> Chars("S"),
                         weaknesses |-> <<[grounding |-> Sec32]>>]]
      [] OTHER -> [ok |-> FALSE, object |-> FALSE, value |-> <<>>]

\* parsed.get(key, [])
GetList(parsed, key) == IF key \in DOMAIN parsed THEN parsed[key] ELSE <<>>

\* whether Point(kind=..., **p) returns: p has a text, and no second kind
PointAccepts(p) == "text" \in DOMAIN p /\ "kind" \notin DOMAIN p

\* Point(kind=kind, **p)
PointFrom(kind, p) ==
    Point(kind, p.text,
          IF "grounding" \in DOMAIN p THEN p.grounding ELSE None,
          IF "facet" \in DOMAIN p THEN p.facet ELSE None)

PointsFromList(kind, items) ==
    [i \in 1..Len(items) |-> PointFrom(kind, items[i])]

Raises == [raised |-> TRUE, review |-> EmptyReview]

Returns(r) == [raised |-> FALSE, review |-> r]

\* the outcome of llm.generate: it raises, or it returns text
GenerateRaises == [raises |-> TRUE, text |-> ""]

GenerateReturns(text) == [raises |-> FALSE, text |-> text]

\* _llm_merge_points: the result is the Review returned, or raised when an
\* exception leaves the function
_llm_merge_points(pts, client, outcome) ==
    IF client = "none" \/ outcome.raises THEN Raises
    ELSE LET loaded == JsonLoads(outcome.text)
             parsed == loaded.value
             lists == <<GetList(parsed, "strengths"),
                        GetList(parsed, "weaknesses"),
                        GetList(parsed, "suggestions")>>
         IN  IF ~loaded.ok \/ ~loaded.object THEN Raises
             ELSE IF \E k \in 1..3 : \E i \in 1..Len(lists[k]) :
                         ~PointAccepts(lists[k][i])
             THEN Raises
             ELSE IF "summary" \notin DOMAIN parsed THEN Raises
             ELSE Returns(Review(parsed.summary,
                                 PointsFromList("strength", lists[1]),
                                 PointsFromList("weakness", lists[2]),
                                 PointsFromList("suggestion", lists[3])))

\* a merge that catches the failure and returns the simple merge instead
MergeWithFallback(pts, client, outcome) ==
    IF _llm_merge_points(pts, client, outcome).raised
    THEN Returns(_simple_merge_points(pts))
    ELSE _llm_merge_points(pts, client, outcome)

\* return _llm_merge_points(points, rubric, llm, paper)
merge_points(pts, client, outcome) == _llm_merge_points(pts, client, outcome)

MergeCallInputs ==
    Lists(PointsOver({Chars("Clear writing")}, {Chars("S1")}), MaxPoints)

GeneratorOutcomes ==
    {GenerateRaises} \cup
    {GenerateReturns(text) :
        text \in {RespSynthesis, RespProse, RespNoSummary, RespList,
                  RespItemWithKind, RespItemWithoutText}}

InitLlmMerge ==
    /\ pc = "merge"
    /\ points \in MergeCallInputs
    /\ llm \in {"none", "client"}
    /\ review = EmptyReview /\ input = EmptyReview /\ before = EmptyReview
    /\ calls = 0 /\ rebuttals = <<>> /\ verifications = <<>>
    /\ idx = 0 /\ verified = <<>> /\ raised = {} /\ outputs = <<>>
    /\ RouterIdle /\ PoolIdle

\* one call of merge_points: it returns a Review (done) or raises (raised)
MergePoints ==
    /\ pc = "merge"
    /\ \E outcome \in GeneratorOutcomes :
           LET result == merge_points(points, llm, outcome)
               called == llm = "client"
           IN  /\ pc' = IF result.raised THEN "raised" ELSE "done"
               /\ review' = result.review
               /\ raised' = IF called /\ outcome.raises THEN {1} ELSE {}
               /\ outputs' = IF called /\ ~outcome.raises
                             THEN <<outcome.text>> ELSE <<>>
    /\ calls' = 1
    /\ UNCHANGED <<points, input, before, rebuttals, verifications>>
    /\ UNCHANGED <<llm, idx, verified, routerVars, poolVars>>

NextLlmMerge == MergePoints

SpecLlmMerge == InitLlmMerge /\ [][NextLlmMerge]_vars

\* the responses that are not a JSON object with a summary and lists of
\* {text, grounding, facet} objects
UnparseableResponses ==
    {RespProse, RespNoSummary, RespList, RespItemWithKind, RespItemWithoutText}

-----------------------------------------------------------------------------
(* agents/verifier.py                                                      *)

ToyOkTags == {Chars("Sec"), Chars("Table"), Chars("Fig"), Chars("Appendix")}

ToyWeakWords ==
    {Chars("clarification"), Chars("misunderstanding"), Chars("context")}

\* the status _toy_verify gives to the rebuttal r
ToyStatus(r) ==
    IF \E tag \in ToyOkTags : Contains(r, tag) THEN "OK"
    ELSE IF \E word \in ToyWeakWords : Contains(Lower(r), word) THEN "WEAK"
    ELSE "UNVERIFIED"

_toy_verify(rs) == [i \in 1..Len(rs) |-> <<ToyStatus(rs[i]), rs[i]>>]

StrOK == Chars("OK")
StrWEAK == Chars("WEAK")

\* a normalisation that looks for WEAK before it looks for OK
NormalizeWeakFirst(response) ==
    IF Contains(response, StrWEAK) THEN "WEAK"
    ELSE IF Contains(response, StrOK) THEN "OK"
    ELSE "UNVERIFIED"

\* the status for response = llm.generate(...).strip().upper()
NormalizeResponse(response) ==
    IF Contains(response, StrOK) THEN "OK"
    ELSE IF Contains(response, StrWEAK) THEN "WEAK"
    ELSE "UNVERIFIED"

\* verified.append((status, rebuttal))
OnResponse(vs, out, rebuttal) ==
    Append(vs, <<NormalizeResponse(Upper(Strip(out))), rebuttal>>)

\* an except clause that only reports the error and goes on
SkipOnError(vs, rebuttal) == vs

\* except Exception: verified.append(_toy_verify([rebuttal])[0])
OnError(vs, rebuttal) == Append(vs, _toy_verify(<<rebuttal>>)[1])

\* what llm.generate may return for the classification prompt
GeneratorOutputs ==
    {Chars("ok"), <<" ">> \o Chars("Weak") \o <<NL>>, Chars("Unverified"),
     Chars("looks weak")}

RebClarification == Chars("CLARIFICATION: we meant accuracy")

VerifyInputs ==
    Lists({RebMisunderstanding, RebAdded, RebClarification}, MaxRebuttals)

InitVerify ==
    /\ pc = "verify"
    /\ rebuttals \in VerifyInputs
    /\ llm \in {"none", "client"}
    /\ idx = 0
    /\ verified = <<>>
    /\ raised = {}
    /\ outputs = <<>>
    /\ points = <<>> /\ review = EmptyReview /\ input = EmptyReview
    /\ before = EmptyReview /\ calls = 0 /\ verifications = <<>>
    /\ RouterIdle /\ PoolIdle

\* if llm is None: return _toy_verify(rebuttals)
ToyVerify ==
    /\ pc = "verify"
    /\ llm = "none"
    /\ verified' = _toy_verify(rebuttals)
    /\ idx' = Len(rebuttals)
    /\ pc' = "done"
    /\ UNCHANGED <<llm, raised, outputs, leaderVars, routerVars, poolVars>>

\* one pass of the loop in which llm.generate returns
VerifyOne ==
    /\ pc = "verify"
    /\ llm = "client"
    /\ idx < Len(rebuttals)
    /\ \E out \in GeneratorOutputs :
           /\ verified' = OnResponse(verified, out, rebuttals[idx + 1])
           /\ outputs' = Append(outputs, out)
    /\ idx' = idx + 1
    /\ UNCHANGED <<pc, llm, raised, leaderVars, routerVars, poolVars>>

\* one pass of the loop in which llm.generate raises
VerifyOneRaises ==
    /\ pc = "verify"
    /\ llm = "client"
    /\ idx < Len(rebuttals)
    /\ verified' = OnError(verified, rebuttals[idx + 1])
    /\ raised' = raised \cup {idx + 1}
    /\ outputs' = Append(outputs, <<>>)
    /\ idx' = idx + 1
    /\ UNCHANGED <<pc, llm, leaderVars, routerVars, poolVars>>

\* return verified
VerifyReturn ==
    /\ pc = "verify"
    /\ llm = "client"
    /\ idx = Len(rebuttals)
    /\ pc' = "done"
    /\ UNCHANGED <<verifierVars, leaderVars, routerVars, poolVars>>

NextVerify == ToyVerify \/ VerifyOne \/ VerifyOneRaises \/ VerifyReturn

SpecVerify == InitVerify /\ [][NextVerify]_vars

\* C7: whatever the generator does, verify returns one (status, text) pair
\* per rebuttal, the i-th pair carrying the i-th rebuttal text unchanged.
C7_VerifyMirrorsInput ==
    pc = "done" =>
        /\ Len(verified) = Len(rebuttals)
        /\ \A i \in 1..Len(rebuttals) : verified[i][2] = rebuttals[i]

\* two different rebuttals, the generator raising on the first and
\* answering on the second
C7_Witness ==
    /\ pc = "done"
    /\ llm = "client"
    /\ Len(rebuttals) = 2
    /\ rebuttals[1] # rebuttals[2]
    /\ raised = {1}
    /\ verified[2][1] # ToyStatus(rebuttals[2])

\* C13: with a generator, every status verify returns is OK, WEAK or
\* UNVERIFIED: OK when the upper-cased generator output holds "OK", else WEAK
\* when it holds "WEAK", else UNVERIFIED; a rebuttal whose generator call
\* raised gets the status of the keyword verifier, and every rebuttal after
\* it is still classified.
C13_GeneratorStatuses ==
    (pc = "done" /\ llm = "client") =>
        /\ Len(verified) = Len(rebuttals)
        /\ \A i \in 1..Len(verified) :
               LET status == verified[i][1]
                   upper == Upper(outputs[i])
               IN  /\ status \in Statuses
                   /\ i \notin raised =>
                          status = IF Contains(upper, Chars("OK")) THEN "OK"
                                   ELSE IF Contains(upper, Chars("WEAK"))
                                   THEN "WEAK"
                                   ELSE "UNVERIFIED"
                   /\ i \in raised =>
                          verified[i] = _toy_verify(<<rebuttals[i]>>)[1]

\* the generator raises on the first rebuttal, which the keyword verifier
\* calls WEAK, and answers "looks weak" on the second: "LOOKS WEAK" holds
\* both "OK" and "WEAK", and the status is OK
C13_Witness ==
    /\ pc = "done"
    /\ llm = "client"
    /\ rebuttals = <<RebClarification, RebAdded>>
    /\ raised = {1}
    /\ outputs[2] = Chars("looks weak")
    /\ verified = <<<<"WEAK", RebClarification>>, <<"OK", RebAdded>>>>

-----------------------------------------------------------------------------
(* agents/author.py                                                        *)

ToyConfidenceInterval ==
    Chars("MISUNDERSTANDING: CIs provided in Appendix B (see Table B.3).")

ToyPower ==
    Chars("VALID POINT: We will add a power analysis for the ablation.")

ToyStatistical ==
    Chars("CLARIFICATION: Statistical analysis details are in Sec 4.2 and Appendix C.")

ToyBaseline ==
    Chars("MISSING CONTEXT: Additional baselines and comparisons are in Table 2 and Sec 4.4.")

ToyElse ==
    Chars("MISSING CONTEXT: Related results in Sec 4.3 address this partially.")

\* the text _toy_rebut gives for the point p
ToyRebuttal(p) ==
    LET text == Lower(p.text)
    IN  IF Contains(text, Chars("confidence interval")) THEN ToyConfidenceInterval
        ELSE IF Contains(text, Chars("power")) THEN ToyPower
        ELSE IF \/ Contains(text, Chars("statistical"))
                \/ Contains(text, Chars("significance"))
        THEN ToyStatistical
        ELSE IF \/ Contains(text, Chars("baseline"))
                \/ Contains(text, Chars("comparison"))
        THEN ToyBaseline
        ELSE ToyElse

_toy_rebut(pts) == [i \in 1..Len(pts) |-> ToyRebuttal(pts[i])]

\* rebuttals.append(rebuttal.strip())
OnRebuttal(rs, out) == Append(rs, Strip(out))

\* an except clause that only reports the error and goes on
SkipRebuttalOnError(rs, point) == rs

\* except Exception: rebuttals.append(_toy_rebut([point])[0])
OnRebuttalError(rs, point) == Append(rs, _toy_rebut(<<point>>)[1])

MaxRebutPoints == 2

\* one text for each branch of _toy_rebut
RebutPointInputs ==
    {Point(k, t, None, None) :
        k \in {"weakness", "suggestion"},
        t \in {Chars("No Confidence Interval given"), StatisticalPower,
               Chars("Significance is not tested"), NoBaselines,
               Chars("Clear writing")}}

\* what llm.generate may return for the rebuttal prompt
RebuttalOutputs ==
    {<<" ">> \o Chars("We agree.") \o <<NL>>, Chars("See Table 2.")}

InitRebut ==
    /\ pc = "rebut"
    /\ points \in Lists(RebutPointInputs, MaxRebutPoints)
    /\ llm \in {"none", "client"}
    /\ rebuttals = <<>>
    /\ idx = 0
    /\ raised = {}
    /\ outputs = <<>>
    /\ verified = <<>>
    /\ review = EmptyReview /\ input = EmptyReview /\ before = EmptyReview
    /\ calls = 0 /\ verifications = <<>>
    /\ RouterIdle /\ PoolIdle

\* if llm is None: return _toy_rebut(points)
ToyRebut ==
    /\ pc = "rebut"
    /\ llm = "none"
    /\ rebuttals' = _toy_rebut(points)
    /\ idx' = Len(points)
    /\ pc' = "done"
    /\ UNCHANGED <<points, review, input, before, calls, verifications>>
    /\ UNCHANGED <<llm, verified, raised, outputs, routerVars, poolVars>>

\* one pass of the loop in which llm.generate returns
RebutOne ==
    /\ pc = "rebut"
    /\ llm = "client"
    /\ idx < Len(points)
    /\ \E out \in RebuttalOutputs :
           /\ rebuttals' = OnRebuttal(rebuttals, out)
           /\ outputs' = Append(outputs, out)
    /\ idx' = idx + 1
    /\ UNCHANGED <<pc, points, review, input, before, calls, verifications>>
    /\ UNCHANGED <<llm, verified, raised, routerVars, poolVars>>

\* one pass of the loop in which the try block raises
RebutOneRaises ==
    /\ pc = "rebut"
    /\ llm = "client"
    /\ idx < Len(points)
    /\ rebuttals' = OnRebuttalError(rebuttals, points[idx + 1])
    /\ raised' = raised \cup {idx + 1}
    /\ outputs' = Append(outputs, <<>>)
    /\ idx' = idx + 1
    /\ UNCHANGED <<pc, points, review, input, before, calls, verifications>>
    /\ UNCHANGED <<llm, verified, routerVars, poolVars>>

\* return rebuttals
RebutReturn ==
    /\ pc = "rebut"
    /\ llm = "client"
    /\ idx = Len(points)
    /\ pc' = "done"
    /\ UNCHANGED <<leaderVars, verifierVars, routerVars, poolVars>>

NextRebut == ToyRebut \/ RebutOne \/ RebutOneRaises \/ RebutReturn

SpecRebut == InitRebut /\ [][NextRebut]_vars

\* C12: in per-point mode rebut always returns, whatever calls of the
\* generator fail: one rebuttal per point, in point order, the keyword-rule
\* fallback text of the point where its call failed and the stripped
\* generator output where it did not.
C12_RebutNeverRaises ==
    /\ pc \in {"rebut", "done"}
    /\ (pc = "done" /\ llm = "client") =>
           /\ Len(rebuttals) = Len(points)
           /\ \A i \in 1..Len(points) :
                  /\ i \in raised => rebuttals[i] = ToyRebuttal(points[i])
                  /\ i \notin raised => rebuttals[i] = Strip(outputs[i])

\* two points: the generator fails on the first, whose text holds "power",
\* and answers on the second
C12_Witness ==
    /\ pc = "done"
    /\ llm = "client"
    /\ Len(points) = 2
    /\ points[1].text = StatisticalPower
    /\ raised = {1}
    /\ rebuttals = <<ToyPower, Chars("We agree.")>>

-----------------------------------------------------------------------------
(* config.py and agents/router.py: SectionBasedRouter                      *)

\* Config.facets, in order
ConfigFacets ==
    <<"methods", "claims_vs_evidence", "novelty", "reproducibility",
      "ethics_licensing", "clarity_presentation", "figures_tables",
      "societal_impact">>

\* the keys of Config.reviewers_for_facets
ReviewersForFacets == {ConfigFacets[i] : i \in 1..Len(ConfigFacets)}

Star == Chars("*")
StrMethod == Chars("method")
StrExperiment == Chars("experiment")
StrResults == Chars("results")

\* SectionBasedRouter.facet_section_mapping
facet_section_mapping ==
    [f \in ReviewersForFacets |->
        CASE f = "methods" ->
                 <<StrMethod, Chars("methods"), Chars("approach"),
                   Chars("methodology"), Chars("experiments"), StrExperiment>>
          [] f = "novelty" ->
                 <<Chars("introduction"), Chars("abstract"),
                   Chars("contribution"), Chars("related work"),
                   Chars("background")>>
          [] f = "claims_vs_evidence" ->
                 <<StrResults, Chars("experiments"), Chars("evaluation"),
                   Chars("discussion"), Chars("conclusion")>>
          [] f = "reproducibility" ->
                 <<StrMethod, Chars("methods"), Chars("experiments"),
                   StrExperiment, Chars("appendix"), Chars("supplement")>>
          [] f = "clarity_presentation" -> <<Star>>
          [] f = "figures_tables" ->
                 <<StrResults, Chars("experiments"), Chars("evaluation")>>
          [] f = "ethics_licensing" ->
                 <<Chars("introduction"), Chars("discussion"),
                   Chars("conclusion"), Chars("ethics"), Chars("limitations")>>
          [] f = "societal_impact" ->
                 <<Chars("introduction"), Chars("discussion"),
                   Chars("conclusion"), Chars("limitations"), Chars("impact")>>]

MethodWords == {StrMethod, Chars("approach"), Chars("technique")}
ExperimentWords == {StrExperiment, Chars("evaluation"), Chars("setup")}
ResultWords == {Chars("result"), Chars("finding"), Chars("outcome")}

_section_matches(section_name, target_pattern) ==
    LET target_lower == Strip(Lower(target_pattern))
    IN  \/ Contains(section_name, target_lower)
        \/ /\ target_lower = StrMethod
           /\ \E word \in MethodWords : Contains(section_name, word)
        \/ /\ target_lower = StrExperiment
           /\ \E word \in ExperimentWords : Contains(section_name, word)
        \/ /\ target_lower = StrResults
           /\ \E word \in ResultWords : Contains(section_name, word)

Heading == Chars("## ")

\* f"## {section.name}\n{section.text}"
SectionBlock(section) == Heading \o section.name \o <<NL>> \o section.text

TruncationMarker == <<NL, NL>> \o Chars("[Text truncated...]")

\* if len(full_text) > max_chars: full_text[:max_chars] + marker
Truncate(full_text, budget) ==
    IF Len(full_text) > budget
    THEN Prefix(full_text, budget) \o TruncationMarker
    ELSE full_text

\* the sections _get_text_for_facet takes for target_sections, in paper order
RelevantSections(sections, target_sections) ==
    IF \E k \in 1..Len(target_sections) : target_sections[k] = Star
    THEN sections
    ELSE LET Matches(section) ==
                 \E k \in 1..Len(target_sections) :
                     _section_matches(Strip(Lower(section.name)),
                                      target_sections[k])
         IN  SelectSeq(sections, Matches)

\* "\n\n".join(...) of the blocks of the sections taken
FullText(sections, target_sections) ==
    LET taken == RelevantSections(sections, target_sections)
    IN  Join([k \in 1..Len(taken) |-> SectionBlock(taken[k])], <<NL, NL>>)

\* (full_text, section_names)
_get_text_for_facet(sections, target_sections, budget) ==
    LET taken == RelevantSections(sections, target_sections)
    IN  [text |-> Truncate(FullText(sections, target_sections), budget),
         sections |-> [k \in 1..Len(taken) |-> taken[k].name]]

\* a route that enters every facet, also one whose text is empty
RouteKeepingBlank(sections, budget) ==
    [f \in ReviewersForFacets |->
        _get_text_for_facet(sections, facet_section_mapping[f], budget)]

\* SectionBasedRouter.route: the facets whose text is not blank
route(sections, budget) ==
    LET info == [f \in ReviewersForFacets |->
                    _get_text_for_facet(sections, facet_section_mapping[f],
                                        budget)]
    IN  [f \in {g \in ReviewersForFacets : Strip(info[g].text) # <<>>} |->
            info[f]]

-----------------------------------------------------------------------------
(* The router, applied to a paper                                          *)

MaxSections == 2

Section(name, text) == [name |-> name, text |-> text]

SectionInputs ==
    {Section(Chars("3. Methods"), Chars("We train.")),
     Section(Chars("Results"), Chars("It works well.")),
     Section(Chars("Experimental Setup "), <<>>),
     Section(Chars("Ethics"), Chars("None."))}

\* character budgets: two that cut the texts above, and the default
BudgetInputs == {10, 30, DefaultMaxChars}

InitRoute ==
    /\ pc = "route"
    /\ paper \in Lists(SectionInputs, MaxSections)
    /\ max_chars \in BudgetInputs
    /\ routing = <<>>
    /\ top_k = DefaultTopK
    /\ LeaderIdle /\ VerifierIdle /\ PoolIdle

Route ==
    /\ pc = "route"
    /\ routing' = route(paper, max_chars)
    /\ pc' = "done"
    /\ UNCHANGED <<paper, max_chars, top_k>>
    /\ UNCHANGED <<leaderVars, verifierVars, poolVars>>

NextRoute == Route

SpecRoute == InitRoute /\ [][NextRoute]_vars

\* C5 as stated: the text routed to a facet is never longer than max_chars,
\* and a text that was cut ends with the truncation marker.
C5_AsStated ==
    pc = "done" =>
        \A f \in DOMAIN routing :
            /\ Len(routing[f].text) <= max_chars
            /\ Len(FullText(paper, facet_section_mapping[f])) > max_chars
                   => EndsWith(routing[f].text, TruncationMarker)

\* C17: route returns a map that holds a facet exactly when the text
\* gathered for it has a character that is not whitespace, and then with
\* that text; a facet no section of the paper matches is left out, and
\* route returns for every paper.
C17_OmitsBlankFacets ==
    pc = "done" =>
        /\ DOMAIN routing \subseteq ReviewersForFacets
        /\ \A f \in ReviewersForFacets :
               LET targets == facet_section_mapping[f]
                   text == _get_text_for_facet(paper, targets, max_chars).text
                   blank == \A i \in 1..Len(text) : text[i] \in Whitespace
               IN  /\ f \in DOMAIN routing <=> ~blank
                   /\ RelevantSections(paper, targets) = <<>>
                          => f \notin DOMAIN routing
                   /\ f \in DOMAIN routing => routing[f].text = text

\* a paper with the one section "Ethics": no section matches the methods
\* facet, which is left out; the facets that see it are routed
C17_Witness ==
    /\ pc = "done"
    /\ Len(paper) = 1
    /\ paper[1].name = Chars("Ethics")
    /\ DOMAIN routing = {"ethics_licensing", "clarity_presentation"}

-----------------------------------------------------------------------------
(* agents/router.py: DynamicRouter                                         *)

\* a DynamicRouter that keeps the first k facets of the routing only
DynamicRouteTopK(sections, k, budget) ==
    LET new_routing == route(sections, budget)
        Routed(f) == f \in DOMAIN new_routing
        order == SelectSeq(ConfigFacets, Routed)
        kept == {order[i] : i \in {j \in 1..Len(order) : j <= k}}
    IN  [f \in kept |->
            [text |-> new_routing[f].text,
             sections |-> new_routing[f].sections]]

\* DynamicRouter.route: the routing of SectionBasedRouter(max_chars), each
\* entry copied into a dict of the old format; top_k is not used
DynamicRoute(sections, k, budget) ==
    LET new_routing == route(sections, budget)
    IN  [f \in DOMAIN new_routing |->
            [text |-> new_routing[f].text,
             sections |-> new_routing[f].sections]]

Span(start, end, facets) == [start |-> start, end |-> end, facets |-> facets]

\* a Section with its facet-tagged spans
TaggedSection(name, text, spans) ==
    [name |-> name, text |-> text, spans |-> spans]

TaggedSectionInputs ==
    {TaggedSection(Chars("3. Methods"), Chars("We train."),
                   <<Span(0, 9, {"methods", "reproducibility"})>>),
     TaggedSection(Chars("Results"), Chars("It works well."), <<>>),
     TaggedSection(Chars("Results"), Chars("It works well."),
                   <<Span(0, 8, {"claims_vs_evidence"}),
                     Span(9, 14, {"claims_vs_evidence", "novelty"})>>),
     TaggedSection(Chars("Ethics"), Chars("None."),
                   <<Span(0, 5, {"ethics_licensing"})>>)}

TopKInputs == {1, 2, DefaultTopK}

InitDynamicRoute ==
    /\ pc = "route"
    /\ paper \in Lists(TaggedSectionInputs, MaxSections)
    /\ max_chars \in BudgetInputs
    /\ top_k \in TopKInputs
    /\ routing = <<>>
    /\ LeaderIdle /\ VerifierIdle /\ PoolIdle

DynamicRouterRoute ==
    /\ pc = "route"
    /\ routing' = DynamicRoute(paper, top_k, max_chars)
    /\ pc' = "done"
    /\ UNCHANGED <<paper, max_chars, top_k>>
    /\ UNCHANGED <<leaderVars, verifierVars, poolVars>>

NextDynamicRoute == DynamicRouterRoute

SpecDynamicRoute == InitDynamicRoute /\ [][NextDynamicRoute]_vars

RECURSIVE SumLengths(_)
SumLengths(spans) ==
    IF spans = <<>> THEN 0
    ELSE (Head(spans).end - Head(spans).start) + SumLengths(Tail(spans))

\* the total character length the spans tagged with facet f cover
Coverage(f) ==
    LET Tagged(span) == f \in span.facets
        RECURSIVE Total(_)
        Total(sections) ==
            IF sections = <<>> THEN 0
            ELSE SumLengths(SelectSeq(Head(sections).spans, Tagged))
                     + Total(Tail(sections))
    IN  Total(paper)

\* C18 as stated: DynamicRouter returns the top_k facets by span coverage:
\* at most top_k facets, each of nonzero coverage, none of them covering less
\* than a facet left out, and every facet of nonzero coverage when there are
\* fewer than top_k of them.
C18_AsStated ==
    pc = "done" =>
        LET kept == DOMAIN routing
            covered == {f \in ReviewersForFacets : Coverage(f) > 0}
        IN  /\ Cardinality(kept) <= top_k
            /\ kept \subseteq covered
            /\ \A f \in kept : \A g \in covered \ kept :
                   Coverage(f) >= Coverage(g)
            /\ Cardinality(kept) < top_k => kept = covered

\* C29: for every paper, every budget and every top_k, DynamicRouter.route
\* returns the map that SectionBasedRouter.route returns with the default
\* configuration and the same budget: the same facets, and for each the same
\* text and the same section names, and nothing besides these two fields.
C29_SameAsSectionBased ==
    pc = "done" =>
        LET section_based == route(paper, max_chars)
        IN  /\ DOMAIN routing = DOMAIN section_based
            /\ \A f \in DOMAIN routing :
                   /\ DOMAIN routing[f] = {"text", "sections"}
                   /\ routing[f].text = section_based[f].text
                   /\ routing[f].sections = section_based[f].sections

\* a DynamicRouter built with top_k = 1 and a budget of 10 characters has
\* routed a paper to more than one facet, with a text that was cut
C29_Witness ==
    /\ pc = "done"
    /\ top_k = 1
    /\ max_chars = 10
    /\ Cardinality(DOMAIN routing) > 1
    /\ \E f \in DOMAIN routing : EndsWith(routing[f].text, TruncationMarker)

-----------------------------------------------------------------------------
(* cli.py: run_reviewer_task and run_reviewers_parallel                    *)

\* Config.reviewers_for_facets
reviewers_for_facets ==
    [f \in ReviewersForFacets |->
        CASE f = "methods" -> "ReviewerMethods"
          [] f = "novelty" -> "ReviewerNovelty"
          [] f = "claims_vs_evidence" -> "ReviewerClaimsEvidence"
          [] f = "reproducibility" -> "ReviewerReproducibility"
          [] f = "ethics_licensing" -> "ReviewerEthicsLicensing"
          [] f = "clarity_presentation" -> "ReviewerClarity"
          [] f = "figures_tables" -> "ReviewerFiguresTables"
          [] f = "societal_impact" -> "ReviewerSocietalImpact"]

\* the keys of REVIEWER_CLASSES
REVIEWER_CLASSES ==
    {"ReviewerMethods", "ReviewerNovelty", "ReviewerClaimsEvidence",
     "ReviewerReproducibility", "ReviewerEthicsLicensing", "ReviewerFigures",
     "ReviewerTables", "ReviewerClarity", "ReviewerSocietalImpact",
     "ReviewerRelatedWork"}

\* if not spans_text.strip() or not agent_cls: return []
ReturnsEarly(facet, route_info) ==
    \/ Strip(route_info.text) = <<>>
    \/ reviewers_for_facets[facet] \notin REVIEWER_CLASSES

\* the tasks, in the order of routed.items(): the order of Config.facets
TaskOrder(routed) ==
    LET Routed(f) == f \in DOMAIN routed IN SelectSeq(ConfigFacets, Routed)

Pending == [state |-> "pending", outcome |-> "none", result |-> <<>>]

Running == [state |-> "running", outcome |-> "none", result |-> <<>>]

\* a future whose task returned the list pts; outcome tells how
Returned(outcome, pts) ==
    [state |-> "finished", outcome |-> outcome, result |-> pts]

\* a future whose task raised
Raised == [state |-> "finished", outcome |-> "raised", result |-> <<>>]

RunningTasks == {f \in DOMAIN future : future[f].state = "running"}

\* a pool whose worker is lost when its task raises: the tasks that raised
\* keep their workers
WorkerLostOnRaise(f) ==
    /\ \E k \in 1..Len(TaskOrder(routing)) :
           /\ TaskOrder(routing)[k] = f
           /\ future[f].state = "pending"
           /\ \A j \in 1..(k - 1) : future[TaskOrder(routing)[j]].state # "pending"
    /\ Cardinality({g \in DOMAIN future : future[g].outcome = "raised"})
           < max_workers

\* the executor hands the tasks to its workers in submission order
NextPending(f) ==
    \E k \in 1..Len(TaskOrder(routing)) :
        /\ TaskOrder(routing)[k] = f
        /\ future[f].state = "pending"
        /\ \A j \in 1..(k - 1) : future[TaskOrder(routing)[j]].state # "pending"

\* all_points = points: the list is replaced, not extended
ReplacePoints(all, pts) == pts

\* all_points.extend(points)
ExtendPoints(all, pts) == all \o pts

-----------------------------------------------------------------------------
(* The reviewer pool, run over a routed map                                *)

MaxWorkers == 2

PoolFacets == {"methods", "claims_vs_evidence", "novelty", "figures_tables"}

RouteInfoInputs ==
    {[text |-> Chars("## Results") \o <<NL>> \o Chars("It works well."),
      sections |-> <<Chars("Results")>>],
     [text |-> <<" ", NL>>, sections |-> <<>>]}

\* what the agent of a facet may return from review()
AgentOutputs(f) ==
    {<<>>,
     <<Point("weakness", StatisticalPower, Sec32, Chars(f))>>,
     <<Point("weakness", StatisticalPower, Sec32, Chars(f)),
       Point("strength", Chars("Clear writing"), None, Chars(f))>>}

InitPool ==
    /\ pc = "pool"
    /\ \E fs \in SUBSET PoolFacets : routing \in [fs -> RouteInfoInputs]
    /\ max_workers \in 1..MaxWorkers
    /\ future = [f \in DOMAIN routing |-> Pending]
    /\ produced = [f \in DOMAIN routing |-> <<>>]
    /\ collected = {}
    /\ all_points = <<>>
    /\ paper = <<>> /\ max_chars = DefaultMaxChars /\ top_k = DefaultTopK
    /\ LeaderIdle /\ VerifierIdle /\ CliIdle /\ AgentIdle
    /\ BatchIdle /\ PipelineIdle

\* a worker takes the next task
StartTask(f) ==
    /\ pc = "pool"
    /\ NextPending(f)
    /\ Cardinality(RunningTasks) < max_workers
    /\ future' = [future EXCEPT ![f] = Running]
    /\ UNCHANGED <<pc, max_workers, produced, collected, all_points>>
    /\ UNCHANGED <<routerVars, leaderVars, verifierVars, cliVars, agentVars,
                   batchVars, pipelineVars>>

\* run_reviewer_task returns [] before it builds the agent
TaskReturnsEarly(f) ==
    /\ pc = "pool"
    /\ future[f].state = "running"
    /\ ReturnsEarly(f, routing[f])
    /\ future' = [future EXCEPT ![f] = Returned("early", <<>>)]
    /\ UNCHANGED <<pc, max_workers, produced, collected, all_points>>
    /\ UNCHANGED <<routerVars, leaderVars, verifierVars, cliVars, agentVars,
                   batchVars, pipelineVars>>

\* LLMClient(...) or agent_cls(llm, cfg) raises: outside the try of the task
TaskRaises(f) ==
    /\ pc = "pool"
    /\ future[f].state = "running"
    /\ ~ReturnsEarly(f, routing[f])
    /\ future' = [future EXCEPT ![f] = Raised]
    /\ UNCHANGED <<pc, max_workers, produced, collected, all_points>>
    /\ UNCHANGED <<routerVars, leaderVars, verifierVars, cliVars, agentVars,
                   batchVars, pipelineVars>>

\* agent.review returns its points
ReviewReturns(f) ==
    /\ pc = "pool"
    /\ future[f].state = "running"
    /\ ~ReturnsEarly(f, routing[f])
    /\ \E pts \in AgentOutputs(f) :
           /\ produced' = [produced EXCEPT ![f] = pts]
           /\ future' = [future EXCEPT ![f] = Returned("reviewed", pts)]
    /\ UNCHANGED <<pc, max_workers, collected, all_points>>
    /\ UNCHANGED <<routerVars, leaderVars, verifierVars, cliVars, agentVars,
                   batchVars, pipelineVars>>

\* agent.review raises: except Exception: return []
ReviewRaises(f) ==
    /\ pc = "pool"
    /\ future[f].state = "running"
    /\ ~ReturnsEarly(f, routing[f])
    /\ future' = [future EXCEPT ![f] = Returned("caught", <<>>)]
    /\ UNCHANGED <<pc, max_workers, produced, collected, all_points>>
    /\ UNCHANGED <<routerVars, leaderVars, verifierVars, cliVars, agentVars,
                   batchVars, pipelineVars>>

\* one pass of `for future in as_completed(future_to_facet)`
Collect(f) ==
    /\ pc = "pool"
    /\ future[f].state = "finished"
    /\ f \notin collected
    /\ collected' = collected \cup {f}
    /\ all_points' = IF future[f].outcome = "raised"
                     THEN all_points
                     ELSE ExtendPoints(all_points, future[f].result)
    /\ UNCHANGED <<pc, max_workers, future, produced>>
    /\ UNCHANGED <<routerVars, leaderVars, verifierVars, cliVars, agentVars,
                   batchVars, pipelineVars>>

\* return all_points (return [] when there are no tasks)
PoolReturn ==
    /\ pc = "pool"
    /\ collected = DOMAIN routing
    /\ pc' = "done"
    /\ UNCHANGED <<poolVars, routerVars, leaderVars, verifierVars>>

NextPool ==
    \/ \E f \in DOMAIN routing : StartTask(f)
    \/ \E f \in DOMAIN routing : TaskReturnsEarly(f)
    \/ \E f \in DOMAIN routing : TaskRaises(f)
    \/ \E f \in DOMAIN routing : ReviewReturns(f)
    \/ \E f \in DOMAIN routing : ReviewRaises(f)
    \/ \E f \in DOMAIN routing : Collect(f)
    \/ PoolReturn

SpecPool == InitPool /\ [][NextPool]_vars

\* the points of the returned list that come from the task of facet f
PointsFrom(f) ==
    LET FromF(p) == p.facet = Chars(f) IN SelectSeq(all_points, FromF)

\* C8: whatever the order in which the tasks run and finish and whichever
\* of them raise, the returned list holds the points of every task whose
\* review returned, and nothing else: a task that raised adds no point.
C8_FaultIsolation ==
    pc = "done" =>
        /\ \A f \in DOMAIN routing : PointsFrom(f) = produced[f]
        /\ \A k \in 1..Len(all_points) :
               \E f \in DOMAIN routing : all_points[k].facet = Chars(f)
        /\ \A f \in DOMAIN routing :
               future[f].outcome # "reviewed" => produced[f] = <<>>

\* three tasks on one worker: the first raises outside its try, the review
\* of the second raises, the third returns two points, which are returned
C8_Witness ==
    /\ pc = "done"
    /\ DOMAIN routing = {"methods", "novelty", "claims_vs_evidence"}
    /\ max_workers = 1
    /\ future["methods"].outcome = "raised"
    /\ future["claims_vs_evidence"].outcome = "caught"
    /\ Len(produced["novelty"]) = 2
    /\ all_points = produced["novelty"]

\* a running task ends: run_reviewer_task returns or raises
TaskEnds ==
    \E f \in DOMAIN routing :
        \/ TaskReturnsEarly(f)
        \/ TaskRaises(f)
        \/ ReviewReturns(f)
        \/ ReviewRaises(f)

\* The pool under its scheduling: a free worker takes the next pending task
\* (ThreadPoolExecutor), a running task ends (every generator call returns
\* or raises), as_completed yields every finished future to the loop, and
\* the function goes on to its return once the loop is over.
SpecPoolFair ==
    /\ InitPool
    /\ [][NextPool]_vars
    /\ WF_vars(\E f \in DOMAIN routing : StartTask(f))
    /\ WF_vars(TaskEnds)
    /\ WF_vars(\E f \in DOMAIN routing : Collect(f))
    /\ WF_vars(PoolReturn)

\* C28: for any number of routed facets, none included, and any pool width
\* of at least one, run_reviewers_parallel returns when every task ends:
\* eventually the function has returned, every submitted task has finished
\* and has been collected, and the result of each is in the list once, neither missing nor repeated.
C28_Terminates ==
    <>(/\ pc = "done"
       /\ collected = DOMAIN routing
       /\ \A f \in DOMAIN routing :
              /\ future[f].state = "finished"
              /\ PointsFrom(f) = future[f].result)

\* four tasks on two workers, all collected and the function returned: one
\* returned early, one raised, two returned points
C28_Witness ==
    /\ pc = "done"
    /\ max_workers = 2
    /\ DOMAIN routing = PoolFacets
    /\ collected = PoolFacets
    /\ \E f \in PoolFacets : future[f].outcome = "early"
    /\ \E f \in PoolFacets : future[f].outcome = "raised"
    /\ Cardinality({f \in PoolFacets : Len(produced[f]) > 0}) = 2

-----------------------------------------------------------------------------
(* config.py and agents/base.py: Agent.review                              *)

\* the fields of the Config dataclass; max_text_length is not one of them,
\* so spans_text[:self.config.max_text_length] raises AttributeError in the
\* review of every agent built on a Config
ConfigFields ==
    {"facets", "reviewers_for_facets", "grounding_required",
     "max_points_per_facet"}

\* a parsed item that is a JSON object, with its fields
Dict(fields) == [isdict |-> TRUE, fields |-> fields]

\* a parsed item that is not an object
NotDict == [isdict |-> FALSE, fields |-> <<>>]

\* isinstance(point_data, dict) and
\* all(key in point_data for key in ['kind', 'text'])
HasKindAndText(item) ==
    item.isdict /\ "kind" \in DOMAIN item.fields /\ "text" \in DOMAIN item.fields

\* point_data.get(key): None when the key is absent
GetField(item, key) ==
    IF key \in DOMAIN item.fields THEN item.fields[key] ELSE None

\* whether Point(...) accepts the item: text: str does not take null
PointValidates(item) == item.fields.text # None

\* Point(kind=point_data['kind'], text=point_data['text'],
\*       grounding=point_data.get('grounding'), facet=point_data.get('facet'))
PointOfItem(item) ==
    Point(item.fields.kind, item.fields.text,
          GetField(item, "grounding"), GetField(item, "facet"))

\* the loop over points_data: the list of points, or raised when Point(...)
\* rejects an item
ParsePoints(data) ==
    LET kept == SelectSeq(data, HasKindAndText)
    IN  IF \E i \in 1..Len(kept) : ~PointValidates(kept[i])
        THEN [raised |-> TRUE, points |-> <<>>]
        ELSE [raised |-> FALSE,
              points |-> [i \in 1..Len(kept) |-> PointOfItem(kept[i])]]

\* Agent.review, for a generator whose response parses to data: the prompt
\* is built first, from spans_text[:self.config.max_text_length]
AgentReview(data) ==
    IF "max_text_length" \notin ConfigFields
    THEN [raised |-> TRUE, points |-> <<>>]
    ELSE ParsePoints(data)

MaxItems == 3

ReviewItems ==
    {Dict([kind |-> "weakness", text |-> StatisticalPower,
           grounding |-> Sec32, facet |-> Methods]),
     Dict([kind |-> "strength", text |-> Chars("Clear writing")]),
     Dict([kind |-> "weakness"]),
     Dict([text |-> NoBaselines, grounding |-> Sec32]),
     Dict([kind |-> "suggestion", text |-> None]),
     NotDict}

InitReview ==
    /\ pc = "review"
    /\ points_data \in Lists(ReviewItems, MaxItems)
    /\ CliIdle /\ BatchIdle /\ PipelineIdle
    /\ max_workers = DefaultMaxWorkers
    /\ future = <<>> /\ produced = <<>> /\ collected = {}
    /\ all_points = <<>>
    /\ LeaderIdle /\ VerifierIdle /\ RouterIdle

\* one call of review(paper, spans_text): it returns points or raises
ReviewCall ==
    /\ pc = "review"
    /\ pc' = IF AgentReview(points_data).raised THEN "raised" ELSE "done"
    /\ points' = AgentReview(points_data).points
    /\ calls' = calls + 1
    /\ UNCHANGED <<review, input, before, rebuttals, verifications>>
    /\ UNCHANGED <<poolVars, verifierVars, routerVars>>

NextReview == ReviewCall

SpecReview == InitReview /\ [][NextReview]_vars

\* the claim's reading of an item that yields a point
CarriesKindAndText(item) ==
    item.isdict /\ {"kind", "text"} \subseteq DOMAIN item.fields

\* C19 as stated: review returns, and the points it returns are built from
\* exactly the items that are objects with a kind and a text, in response
\* order, grounding and facet absent where the item has none; the other
\* items are dropped and no item makes the call fail.
C19_AsStated ==
    calls = 1 =>
        /\ pc = "done"
        /\ LET kept == SelectSeq(points_data, CarriesKindAndText)
           IN  /\ Len(points) = Len(kept)
               /\ \A i \in 1..Len(kept) :
                      /\ points[i].kind = kept[i].fields.kind
                      /\ points[i].text = kept[i].fields.text
                      /\ points[i].grounding =
                             IF "grounding" \in DOMAIN kept[i].fields
                             THEN kept[i].fields.grounding ELSE None
                      /\ points[i].facet =
                             IF "facet" \in DOMAIN kept[i].fields
                             THEN kept[i].fields.facet ELSE None

-----------------------------------------------------------------------------
(* cli.py: main, from fetch_top_related to the call of merge_points        *)

StrRelatedWork == Chars("related work")

\* nm = (sec.name or "").lower(); "related work" in nm
IsRelatedWork(sec) == Contains(Lower(sec.name), StrRelatedWork)

\* intro_related_texts: the text of the first section the loop breaks on
intro_related_texts(sections) ==
    LET hits == {i \in 1..Len(sections) : IsRelatedWork(sections[i])}
    IN  IF hits = {} THEN <<>>
        ELSE <<sections[CHOOSE i \in hits : \A j \in hits : i <= j].text>>

\* if top_related and not args.skip_related
RelatedEnabled == top_related # <<>> /\ ~args.skip_related

CliSections ==
    {Section(Chars("1 Introduction"), Chars("We study X.")),
     Section(Chars("2 Related Work"), Chars("Prior work Y.")),
     Section(Chars("3. Methods"), Chars("We train."))}

\* what fetch_top_related may return
FetchResults ==
    {<<>>, <<[title |-> Chars("A related paper"), year |-> Chars("2020")]>>}

\* what run_reviewers_parallel may return
PoolResults ==
    {<<>>, <<Point("weakness", StatisticalPower, Sec32, Methods)>>}

InitCli ==
    /\ pc = "fetch"
    /\ args \in [skip_related : BOOLEAN]
    /\ paper \in Lists(CliSections, MaxSections)
    /\ top_related = <<>>
    /\ rw_text = None
    /\ max_workers = DefaultMaxWorkers
    /\ future = <<>> /\ produced = <<>> /\ collected = {}
    /\ all_points = <<>>
    /\ max_chars = DefaultMaxChars /\ routing = <<>> /\ top_k = DefaultTopK
    /\ LeaderIdle /\ VerifierIdle /\ AgentIdle
    /\ BatchIdle /\ PipelineIdle

\* top_related = fetch_top_related(paper, top_k=3) if not args.skip_related
\* else []
FetchTopRelated ==
    /\ pc = "fetch"
    /\ \E found \in FetchResults :
           top_related' = IF ~args.skip_related THEN found ELSE <<>>
    /\ pc' = "reviewers"
    /\ UNCHANGED <<args, rw_text, max_workers, future, produced, collected,
                   all_points, agentVars, batchVars, pipelineVars, leaderVars,
                   verifierVars, routerVars>>

\* routed = ...; all_points = run_reviewers_parallel(...)
RunReviewers ==
    /\ pc = "reviewers"
    /\ all_points' \in PoolResults
    /\ pc' = "related"
    /\ UNCHANGED <<cliVars, agentVars, batchVars, pipelineVars, max_workers,
                   future, produced, collected, leaderVars, verifierVars,
                   routerVars>>

\* the Related Work block is not entered
RelatedSkipped ==
    /\ pc = "related"
    /\ ~RelatedEnabled
    /\ pc' = "merge"
    /\ UNCHANGED <<poolVars, leaderVars, verifierVars, routerVars>>

\* the agent is built, no section name holds "related work": no review
RelatedNoSection ==
    /\ pc = "related"
    /\ RelatedEnabled
    /\ intro_related_texts(paper) = <<>>
    /\ pc' = "merge"
    /\ UNCHANGED <<poolVars, leaderVars, verifierVars, routerVars>>

\* rw_agent.review(paper, rw_text, related=top_related) is called and
\* raises; the call is in no try block, so the exception leaves main
RelatedReviewRaises ==
    /\ pc = "related"
    /\ RelatedEnabled
    /\ intro_related_texts(paper) # <<>>
    /\ "max_text_length" \notin ConfigFields
    /\ rw_text' = Join(intro_related_texts(paper), <<NL, NL>>)
    /\ calls' = calls + 1
    /\ raised' = raised \cup {calls + 1}
    /\ pc' = "aborted"
    /\ UNCHANGED <<args, top_related, agentVars, batchVars, pipelineVars,
                   max_workers, future, produced, collected, all_points,
                   routerVars>>
    /\ UNCHANGED <<points, review, input, before, rebuttals, verifications>>
    /\ UNCHANGED <<llm, idx, verified, outputs>>

\* raw_points = all_points.copy(); merge_points(all_points, ...) is called
CallMergePoints ==
    /\ pc = "merge"
    /\ points' = all_points
    /\ pc' = "merging"
    /\ UNCHANGED <<review, input, before, calls, rebuttals, verifications>>
    /\ UNCHANGED <<poolVars, verifierVars, routerVars>>

NextCli ==
    \/ FetchTopRelated
    \/ RunReviewers
    \/ RelatedSkipped
    \/ RelatedNoSection
    \/ RelatedReviewRaises
    \/ CallMergePoints

SpecCli == InitCli /\ [][NextCli]_vars

\* C15 as stated: an exception raised by a reviewer agent, the Related-Work
\* agent of the CLI pipeline included, is caught by the caller and counts as
\* zero points: it never ends the pipeline, which goes on to merge the
\* points of the other agents.
C15_AsStated == raised # {} => pc # "aborted"

\* a section the claim lets the Related-Work agent read first
IsIntroOrRelated(sec) ==
    \/ Contains(Lower(sec.name), Chars("introduction"))
    \/ Contains(Lower(sec.name), StrRelatedWork)

\* C16 as stated: once main is past the Related Work block, with the
\* reviewer enabled and related-paper records at hand, the Related-Work
\* agent has been invoked exactly once: on the text of an
\* Introduction/Related-Work section when the paper has one, on the text of
\* a fallback section otherwise.
C16_AsStated ==
    (pc \in {"merge", "merging", "aborted"} /\ RelatedEnabled /\ paper # <<>>)
        => /\ calls = 1
           /\ \E i \in 1..Len(paper) :
                  /\ rw_text = paper[i].text
                  /\ (\E j \in 1..Len(paper) : IsIntroOrRelated(paper[j]))
                         => IsIntroOrRelated(paper[i])

-----------------------------------------------------------------------------
(* eval/batch_generation.py, and the output stage of cli.py main           *)

\* pathlib's path / name: a name holding "/" adds several components
PathDiv(path, name) == path \o Split(name, "/")

\* path.parents and the path itself: what mkdir(parents=True) creates
WithParents(path) == {SubSeq(path, 1, k) : k \in 1..Len(path)}

\* the config_flags list that cli.py and batch_generation.py both build
ConfigFlags(a) ==
    (IF a.skip_rebuttal THEN <<Chars("no_rebuttal")>> ELSE <<>>)
    \o (IF a.skip_related THEN <<Chars("no_related")>> ELSE <<>>)
    \o (IF a.skip_grounding THEN <<Chars("no_grounding")>> ELSE <<>>)
    \o (IF a.routing # Chars("dynamic")
        THEN <<Chars("routing_") \o a.routing>> ELSE <<>>)

\* "_".join(config_flags) if config_flags else "default"
ConfigStr(config_flags) ==
    IF config_flags # <<>> THEN Join(config_flags, <<"_">>)
    ELSE Chars("default")

\* f"paper_{paper_id}_{model}_{config_str}"
ReviewDirName(paper_id, model, config_str) ==
    Chars("paper_") \o paper_id \o <<"_">> \o model \o <<"_">> \o config_str

StrReviewOriginal == Chars("review_original.json")

check_review_exists(paper_id, model, config_flags, runs_dir, fs) ==
    LET config_str == ConfigStr(config_flags)
        model_dir == PathDiv(runs_dir, model)
        review_dir ==
            PathDiv(model_dir, ReviewDirName(paper_id, model, config_str))
    IN  review_dir \in fs /\ PathDiv(review_dir, StrReviewOriginal) \in fs

\* cli.py main: outdir = base_dir / f"paper_{...}_{args.model}_{config_str}"
\* with base_dir the --output_dir the batch passes, str(runs_dir)
outdir(a, paper_id) ==
    PathDiv(a.runs_dir,
            ReviewDirName(paper_id, a.model, ConfigStr(ConfigFlags(a))))

\* the files main writes; updated_review and rebuttal are None under
\* --skip_rebuttal
FilesSaved(a) ==
    {Chars("reviewer_points_raw.json"), StrReviewOriginal}
    \cup (IF a.skip_rebuttal THEN {}
          ELSE {Chars("review_updated.json"), Chars("rebuttal.txt")})

\* cli.py main from "Check if review already exists" on: it returns when
\* the review is there and --force is not given, and writes otherwise
SaveOutputs(a, paper_id, fs) ==
    LET d == outdir(a, paper_id)
    IN  IF ~a.force /\ d \in fs /\ PathDiv(d, StrReviewOriginal) \in fs
        THEN fs
        ELSE fs \cup WithParents(d)
                \cup {PathDiv(d, name) : name \in FilesSaved(a)}

\* a result record; its message and error texts are left out
Result(paper_id, status) == [paper_id |-> paper_id, status |-> status]

NoResult == Result(<<>>, "none")

\* what a call of run_single_paper_direct does: it returns a record or
\* raises, and leaves the file system as fs
Gives(result, fs) == [raised |-> FALSE, result |-> result, files |-> fs]

Throws(fs) == [raised |-> TRUE, result |-> NoResult, files |-> fs]

\* the except Exception branch: the status read off the message
StatusOfError(error_msg) ==
    IF Contains(error_msg, Chars("Paper"))
       /\ Contains(error_msg, Chars("not found"))
    THEN "not_found"
    ELSE IF Contains(error_msg, Chars("429"))
            \/ Contains(error_msg, Chars("RESOURCE_EXHAUSTED"))
    THEN "quota_error"
    ELSE "error"

\* how the import and the call of cli.main end
CliOutcome(kind, code, msg) == [kind |-> kind, code |-> code, msg |-> msg]

CliOutcomes ==
    {CliOutcome("import_error", 0, Chars("cannot import name")),
     CliOutcome("not_loaded", 0, <<>>),
     CliOutcome("completes", 0, <<>>),
     CliOutcome("exit", 0, <<>>),
     CliOutcome("exit", 2, <<>>),
     CliOutcome("raises", 0, Chars("Paper 100 not found")),
     CliOutcome("raises", 0, Chars("429 Too Many Requests")),
     CliOutcome("raises", 0, Chars("list index out of range"))}

\* run_single_paper_direct; argv_id is the --paper_id that cli.main finds
\* in sys.argv.  `from cli import main` is the first statement of the try
\* block and original_argv is bound after it: when the import raises, the
\* handler's `sys.argv = original_argv` raises UnboundLocalError, which
\* leaves the function.
run_single_paper_direct(paper_id, a, fs, outcome, argv_id) ==
    IF ~a.force
       /\ check_review_exists(paper_id, a.model, ConfigFlags(a), a.runs_dir, fs)
    THEN Gives(Result(paper_id, "skipped"), fs)
    ELSE IF outcome.kind = "import_error" THEN Throws(fs)
    ELSE IF outcome.kind = "not_loaded"
    THEN Gives(Result(paper_id, "success"), fs)
    ELSE IF outcome.kind = "completes"
    THEN Gives(Result(paper_id, "success"), SaveOutputs(a, argv_id, fs))
    ELSE IF outcome.kind = "exit"
    THEN Gives(Result(paper_id,
                      IF outcome.code = 0 THEN "success" ELSE "error"), fs)
    ELSE Gives(Result(paper_id, StatusOfError(outcome.msg)), fs)

\* a collector that forgets the paper whose task raised
DropOnException(rs, paper_id, r) ==
    IF r.raised THEN rs ELSE Append(rs, r.result)

\* results.append(result), and in the except branch
\* results.append({"paper_id": paper_id, "status": "exception", ...})
OnTaskOutcome(rs, paper_id, r) ==
    IF r.raised THEN Append(rs, Result(paper_id, "exception"))
    ELSE Append(rs, r.result)

MaxPapers == 2

Paper100 == Chars("100")
Paper101 == Chars("101")
PaperIds == {Paper100, Paper101}

RunsDir == <<Chars("runs")>>

\* LLMModels.GPT_4O_MINI and LLMModels.LLAMA_3_3_70B
ModelGpt == Chars("gpt-4o-mini")
ModelLlama == Chars("meta-llama/Llama-3.3-70B-Instruct-Turbo-Free")

BatchArgs(model, routing_, skip_rebuttal, force, width) ==
    [model |-> model, runs_dir |-> RunsDir, routing |-> routing_,
     skip_related |-> FALSE, skip_rebuttal |-> skip_rebuttal,
     skip_grounding |-> FALSE, force |-> force, max_workers |-> width]

\* the default configuration, an ablation of it, and a forced run, each
\* with one worker and with two
BatchArgInputs ==
    UNION {{BatchArgs(ModelGpt, Chars("dynamic"), FALSE, FALSE, w),
            BatchArgs(ModelLlama, Chars("all"), TRUE, FALSE, w),
            BatchArgs(ModelGpt, Chars("dynamic"), FALSE, TRUE, w)} :
           w \in {1, 2}}

\* the directory and file check_review_exists looks for
CachedTree(a, paper_id) ==
    LET review_dir ==
            PathDiv(PathDiv(a.runs_dir, a.model),
                    ReviewDirName(paper_id, a.model,
                                  ConfigStr(ConfigFlags(a))))
    IN  WithParents(review_dir) \cup {PathDiv(review_dir, StrReviewOriginal)}

\* the file system before the batch: empty, or left by an earlier run of
\* cli.main for paper 100 with the same arguments, or holding a review of
\* paper 100 where check_review_exists looks
FileSystems(a) ==
    {{}, SaveOutputs(a, Paper100, {}), CachedTree(a, Paper100)}

TaskPending == [state |-> "pending", raised |-> FALSE, result |-> NoResult]

TaskFinished(r) ==
    [state |-> "finished", raised |-> r.raised, result |-> r.result]

TaskCollected == [state |-> "collected", raised |-> FALSE, result |-> NoResult]

InitBatch ==
    /\ pc = "start"
    /\ batch_args \in BatchArgInputs
    /\ paper_ids \in Lists(PaperIds, MaxPapers)
    /\ tasks = [i \in 1..Len(paper_ids) |-> TaskPending]
    /\ results = <<>>
    /\ files \in FileSystems(batch_args)
    /\ earlier = files
    /\ CliIdle /\ AgentIdle /\ PipelineIdle
    /\ max_workers = DefaultMaxWorkers
    /\ future = <<>> /\ produced = <<>> /\ collected = {}
    /\ all_points = <<>>
    /\ LeaderIdle /\ VerifierIdle /\ RouterIdle

BatchUnchanged ==
    UNCHANGED <<batch_args, paper_ids, earlier, cliVars, agentVars,
                pipelineVars, max_workers, future, produced, collected,
                all_points,
                leaderVars, verifierVars, routerVars>>

\* runs_dir.mkdir(parents=True, exist_ok=True); results = []; with more
\* than one worker every task is submitted to the executor
BatchStart ==
    /\ pc = "start"
    /\ files' = files \cup WithParents(batch_args.runs_dir)
    /\ pc' = IF batch_args.max_workers = 1 THEN "sequential" ELSE "parallel"
    /\ UNCHANGED <<tasks, results>>
    /\ BatchUnchanged

\* the paper the sequential loop is at
IsNextPaper(i) ==
    /\ i \in 1..Len(paper_ids)
    /\ tasks[i].state = "pending"
    /\ \A j \in 1..(i - 1) : tasks[j].state = "collected"

\* one turn of the sequential loop that finds the review and skips
SequentialSkip(i) ==
    /\ pc = "sequential"
    /\ IsNextPaper(i)
    /\ ~batch_args.force
    /\ check_review_exists(paper_ids[i], batch_args.model,
                           ConfigFlags(batch_args), batch_args.runs_dir, files)
    /\ results' = Append(results, Result(paper_ids[i], "skipped"))
    /\ tasks' = [tasks EXCEPT ![i] = TaskCollected]
    /\ UNCHANGED <<pc, files>>
    /\ BatchUnchanged

\* one turn of the sequential loop that calls run_single_paper_direct
SequentialRun(i) ==
    /\ pc = "sequential"
    /\ IsNextPaper(i)
    /\ \/ batch_args.force
       \/ ~check_review_exists(paper_ids[i], batch_args.model,
                               ConfigFlags(batch_args), batch_args.runs_dir,
                               files)
    /\ \E outcome \in CliOutcomes :
           LET r == run_single_paper_direct(paper_ids[i], batch_args, files,
                                            outcome, paper_ids[i])
           IN  /\ results' = OnTaskOutcome(results, paper_ids[i], r)
               /\ files' = r.files
    /\ tasks' = [tasks EXCEPT ![i] = TaskCollected]
    /\ UNCHANGED pc
    /\ BatchUnchanged

\* a worker thread runs run_single_paper_direct for one submitted paper.
\* The threads share sys.argv, which each of them assigns before it calls
\* cli.main: the --paper_id that main parses is the one of any submitted
\* paper.
ParallelRun(i) ==
    /\ pc = "parallel"
    /\ i \in 1..Len(paper_ids)
    /\ tasks[i].state = "pending"
    /\ \E outcome \in CliOutcomes, argv_id \in Elements(paper_ids) :
           LET r == run_single_paper_direct(paper_ids[i], batch_args, files,
                                            outcome, argv_id)
           IN  /\ tasks' = [tasks EXCEPT ![i] = TaskFinished(r)]
               /\ files' = r.files
    /\ UNCHANGED <<pc, results>>
    /\ BatchUnchanged

\* as_completed yields a finished future; future.result() returns its
\* record or raises what the task raised
ParallelCollect(i) ==
    /\ pc = "parallel"
    /\ i \in 1..Len(paper_ids)
    /\ tasks[i].state = "finished"
    /\ results' = OnTaskOutcome(results, paper_ids[i], tasks[i])
    /\ tasks' = [tasks EXCEPT ![i] = TaskCollected]
    /\ UNCHANGED <<pc, files>>
    /\ BatchUnchanged

\* return results
BatchReturn ==
    /\ pc \in {"sequential", "parallel"}
    /\ \A i \in 1..Len(paper_ids) : tasks[i].state = "collected"
    /\ pc' = "done"
    /\ UNCHANGED <<tasks, results, files>>
    /\ BatchUnchanged

NextBatch ==
    \/ BatchStart
    \/ \E i \in 1..Len(paper_ids) : SequentialSkip(i)
    \/ \E i \in 1..Len(paper_ids) : SequentialRun(i)
    \/ \E i \in 1..Len(paper_ids) : ParallelRun(i)
    \/ \E i \in 1..Len(paper_ids) : ParallelCollect(i)
    \/ BatchReturn

SpecBatch == InitBatch /\ [][NextBatch]_vars

\* the number of positions of a list that hold x
Occurrences(seq, x) == Cardinality({i \in 1..Len(seq) : seq[i] = x})

BatchStatuses ==
    {"skipped", "success", "error", "not_found", "quota_error", "exception"}

CliWrote(a, paper_id, fs) ==
    /\ outdir(a, paper_id) \in fs
    /\ PathDiv(outdir(a, paper_id), StrReviewOriginal) \in fs

\* C30 as stated: when cli.main wrote a paper's review_original.json under
\* the output directory before the batch was called with the same
\* directory, model and configuration and without force, the batch reports
\* that paper as skipped.
C30_AsStated ==
    (pc = "done" /\ ~batch_args.force)
        => \A k \in 1..Len(results) :
               CliWrote(batch_args, results[k].paper_id, earlier)
                   => results[k].status = "skipped"

-----------------------------------------------------------------------------
(* streamlit_app.py: run_pipeline, and cli.py: main, from the merge on     *)

\* the per-point loop of rebut: the generator's text, stripped, or the toy
\* rebuttal of the point when the generator raises
RECURSIVE RebutLoop(_, _, _)
RebutLoop(pts, outs, rs) ==
    IF pts = <<>> THEN rs
    ELSE RebutLoop(Tail(pts), Tail(outs),
                   IF Head(outs).raises THEN OnRebuttalError(rs, Head(pts))
                   ELSE OnRebuttal(rs, Head(outs).text))

\* rebut(points, paper, llm); outs is what llm.generate does for each point
rebut(pts, client, outs) ==
    IF client = "none" THEN _toy_rebut(pts) ELSE RebutLoop(pts, outs, <<>>)

\* a pipeline that hands the Review on as the merge engine returned it
Unfiltered(r, skip_grounding) == r

\* review = enforce_grounding(review), under `if not args.skip_grounding`
\* in cli.py and always in run_pipeline
GroundingStage(r, skip_grounding) ==
    IF skip_grounding THEN r ELSE enforce_grounding(r)

\* rebut(review.weaknesses + review.suggestions, ...)
RebutArgument(r) == r.weaknesses \o r.suggestions

MaxPipelinePoints == 2

\* the points the merged Review of a run is made of
PipelinePoints ==
    {Point("weakness", StatisticalPower, Sec32, Methods),
     Point("weakness", NoBaselines, None, None),
     Point("suggestion", NoBaselines, <<" ">>, None)}

\* run_pipeline has no ablation flags and calls merge_points, rebut and
\* verify without the llm argument; main passes llm and reads the flags
PipelineArgs(entry, skip_grounding, skip_rebuttal) ==
    [entry |-> entry, skip_related |-> FALSE,
     skip_grounding |-> skip_grounding, skip_rebuttal |-> skip_rebuttal]

PipelineArgInputs ==
    {PipelineArgs("run_pipeline", FALSE, FALSE)}
    \cup {PipelineArgs("main", sg, sr) : sg \in BOOLEAN, sr \in BOOLEAN}

\* what llm.generate does for one rebuttal prompt
RebuttalOutcomes ==
    {[raises |-> TRUE, text |-> <<>>], [raises |-> FALSE, text |-> RebAdded]}

InitPipeline ==
    /\ pc = "merge"
    /\ args \in PipelineArgInputs
    /\ llm = IF args.entry = "main" THEN "client" ELSE "none"
    /\ points \in Lists(PipelinePoints, MaxPipelinePoints)
    /\ review = EmptyReview
    /\ input = EmptyReview
    /\ before = EmptyReview
    /\ calls = 0
    /\ rebuttals = <<>>
    /\ verifications = <<>>
    /\ stages = <<>>
    /\ rebutted = <<>>
    /\ idx = 0 /\ verified = <<>> /\ raised = {} /\ outputs = <<>>
    /\ top_related = <<>> /\ rw_text = None
    /\ AgentIdle /\ BatchIdle /\ RouterIdle
    /\ max_workers = DefaultMaxWorkers
    /\ future = <<>> /\ produced = <<>> /\ collected = {}
    /\ all_points = <<>>

PipelineUnchanged ==
    UNCHANGED <<points, calls, llm, idx, verified, raised, outputs, cliVars,
                agentVars, batchVars, routerVars, max_workers, future,
                produced, collected, all_points>>

\* review = merge_points(all_points, Rubric(), ...) returns the Review that
\* the generator's synthesis describes: here one that keeps every point.
\* Called without llm, as run_pipeline calls it, merge_points only raises
\* (_llm_merge_points above); the call is let return for both entries, so
\* that the stages which follow it in run_pipeline are examined too.
MergeStage ==
    /\ pc = "merge"
    /\ review' = ReviewOf(points)
    /\ input' = review'
    /\ stages' = Append(stages, "merge")
    /\ pc' = "ground"
    /\ UNCHANGED <<before, rebuttals, verifications, rebutted>>
    /\ PipelineUnchanged

\* merge_points raises: the exception leaves run_pipeline and main
MergeStageRaises ==
    /\ pc = "merge"
    /\ stages' = Append(stages, "merge")
    /\ pc' = "aborted"
    /\ UNCHANGED <<review, input, before, rebuttals, verifications, rebutted>>
    /\ PipelineUnchanged

\* review = enforce_grounding(review)
GroundingFilter ==
    /\ pc = "ground"
    /\ ~args.skip_grounding
    /\ review' = GroundingStage(review, args.skip_grounding)
    /\ stages' = Append(stages, "grounding")
    /\ pc' = "rebut"
    /\ UNCHANGED <<input, before, rebuttals, verifications, rebutted>>
    /\ PipelineUnchanged

\* main under --skip_grounding
GroundingSkipped ==
    /\ pc = "ground"
    /\ args.skip_grounding
    /\ pc' = "rebut"
    /\ UNCHANGED <<review, input, before, rebuttals, verifications, stages,
                   rebutted>>
    /\ PipelineUnchanged

\* rebuttals = rebut(review.weaknesses + review.suggestions, ...)
RebuttalStage ==
    /\ pc = "rebut"
    /\ ~args.skip_rebuttal
    /\ rebutted' = RebutArgument(review)
    /\ \E outs \in [1..Len(RebutArgument(review)) -> RebuttalOutcomes] :
           rebuttals' = rebut(RebutArgument(review), llm, outs)
    /\ stages' = Append(stages, "rebuttal")
    /\ pc' = IF args.entry = "main" THEN "update" ELSE "verify"
    /\ UNCHANGED <<review, input, before, verifications>>
    /\ PipelineUnchanged

\* main under --skip_rebuttal: rebuttal = None, updated_review = None
RebuttalSkipped ==
    /\ pc = "rebut"
    /\ args.skip_rebuttal
    /\ pc' = "done"
    /\ UNCHANGED <<review, input, before, rebuttals, verifications, stages,
                   rebutted>>
    /\ PipelineUnchanged

\* run_pipeline: verifications = verify(rebuttals)
VerificationStage ==
    /\ pc = "verify"
    /\ verifications' = _toy_verify(rebuttals)
    /\ stages' = Append(stages, "verification")
    /\ pc' = "revise"
    /\ UNCHANGED <<review, input, before, rebuttals, rebutted>>
    /\ PipelineUnchanged

\* run_pipeline: review = revise_review(review, rebuttals, verifications)
RevisionStage ==
    /\ pc = "revise"
    /\ before' = review
    /\ review' = revise_review(review, rebuttals, verifications)
    /\ stages' = Append(stages, "revision")
    /\ pc' = "done"
    /\ UNCHANGED <<input, rebuttals, verifications, rebutted>>
    /\ PipelineUnchanged

\* main: updated_review = update_review_with_rebuttals(review, rebuttal,
\* ...).  agents/leader.py has no such function; it is taken to do what the
\* specification says follows the rebuttal: the rebuttals are verified,
\* one outcome each, and the Review is revised with the outcomes.
UpdateReviewWithRebuttals ==
    /\ pc = "update"
    /\ \E sts \in [1..Len(rebuttals) -> Statuses] :
           verifications' = [i \in 1..Len(rebuttals) |-> <<sts[i], rebuttals[i]>>]
    /\ before' = review
    /\ review' = revise_review(review, rebuttals, verifications')
    /\ stages' = stages \o <<"verification", "revision">>
    /\ pc' = "done"
    /\ UNCHANGED <<input, rebuttals, rebutted>>
    /\ PipelineUnchanged

NextPipeline ==
    \/ MergeStage
    \/ MergeStageRaises
    \/ GroundingFilter
    \/ GroundingSkipped
    \/ RebuttalStage
    \/ RebuttalSkipped
    \/ VerificationStage
    \/ RevisionStage
    \/ UpdateReviewWithRebuttals

SpecPipeline == InitPipeline /\ [][NextPipeline]_vars

StageOrder == <<"merge", "grounding", "rebuttal", "verification", "revision">>

Rank(stage) == CHOOSE i \in 1..Len(StageOrder) : StageOrder[i] = stage

\* the point has a grounding that is not blank
HasGrounding(p) ==
    p.grounding # None /\ \E k \in 1..Len(p.grounding) :
                              p.grounding[k] \notin Whitespace

\* C27: the stages that run, run in the order merge, grounding filter,
\* rebuttal generation, verification, revision; one rebuttal is generated
\* for each point handed to rebut, and when the grounding filter has run,
\* these are weaknesses and suggestions of the merged Review that have a
\* grounding: no rebuttal is generated for a point the filter dropped.
C27_StagesInOrder ==
    /\ \A i, j \in 1..Len(stages) :
           i < j => Rank(stages[i]) < Rank(stages[j])
    /\ stages # <<>> => stages[1] = "merge"
    /\ Len(rebuttals) = Len(rebutted)
    /\ \A k \in 1..Len(rebutted) :
           /\ rebutted[k] \in Elements(input.weaknesses)
                                  \cup Elements(input.suggestions)
           /\ "grounding" \in Elements(stages) => HasGrounding(rebutted[k])

\* a run of all five stages in which the filter dropped a point of the
\* merged Review and a rebuttal was generated for the other
C27_Witness ==
    /\ pc = "done"
    /\ stages = StageOrder
    /\ Len(input.weaknesses) + Len(input.suggestions) = 2
    /\ Len(rebutted) = 1
    /\ Len(rebuttals) = 1

====
